---- MODULE Spec2Model ----
(***************************************************************************)
(* Model of the AIS decoding core of ais-princess:                         *)
(*   - MultiPartBuffer (db/decoder.py): the multi-sentence reassembler     *)
(*   - AISDecoder.process_batch (db/decoder.py): the batch driver          *)
(*   - ais_binary (dac-fid-decoder): bit reader, dearmorer, DAC/FID        *)
(*     dispatch                                                            *)
(*                                                                         *)
(* Representation.  A Python str that is only ever split on "," is kept as *)
(* the list of its comma-delimited fields (str.split(",") is a bijection   *)
(* between strings and non-empty lists of comma-free strings).  A dict is  *)
(* a function; its insertion order is not kept.  time.time() is the        *)
(* variable clock, in whole seconds.                                       *)
(***************************************************************************)
EXTENDS Integers, Sequences, FiniteSets, Bags, TLC

VARIABLES
    buffer,      \* MultiPartBuffer.buffer: key -> (part number -> fragment)
    timestamps,  \* MultiPartBuffer.timestamps: key -> creation time
    clock,       \* time.time()
    call,        \* the last call made on the reassembler
    ret,         \* what that call returned (or raised)
    lost,        \* history: the fragments the last call dropped without returning them
    rows,        \* the raw_messages table: id -> [nmea, decoded, decode_error]
    alive,       \* the decoder process is running (no exception has escaped it)
    prior        \* history: the decode_binary_payload call before the last one

vars == <<buffer, timestamps, clock, call, ret, lost, rows, alive, prior>>

(***************************************************************************)
(* Bounds of the model.                                                    *)
(***************************************************************************)
MaxBuffered == 2  \* at most this many fragments are held in the buffer at once

\* time.time() advances between calls by one of these amounts
TickSteps == {30, 31}

(***************************************************************************)
(* Dict helpers.                                                           *)
(***************************************************************************)
EmptyDict == [x \in {} |-> 0]
Put(d, k, v) == [x \in (DOMAIN d) \cup {k} |-> IF x = k THEN v ELSE d[x]]
Del(d, k) == [x \in (DOMAIN d) \ {k} |-> d[x]]

(***************************************************************************)
(* Python int(str) on the field strings the model uses: surrounding        *)
(* whitespace and leading zeros are accepted, anything else that is not a  *)
(* decimal integer raises ValueError.                                      *)
(***************************************************************************)
IntLiterals ==
    ("0" :> 0) @@ ("1" :> 1) @@ ("2" :> 2) @@ ("3" :> 3)
    @@ (" 2" :> 2) @@ ("02" :> 2)

IsInt(s) == s \in DOMAIN IntLiterals
int(s) == IntLiterals[s]

(***************************************************************************)
(* Sentences handed to add, each as its list of comma-delimited fields:    *)
(*   field[1] total parts, field[2] part number, field[3] sequence id,     *)
(*   field[4] channel (0-based, as in the source).                         *)
(***************************************************************************)
Sentence(total, part, seq_id, channel) ==
    <<"!AIVDM", total, part, seq_id, channel, "payload", "0*00">>

MultiPartSentences ==
    { Sentence("2", "1", "7", "A"), Sentence(" 2", "02", "7", "A"),
      Sentence("2", "3", "7", "A") }
    \cup { Sentence("3", p, "7", "A") : p \in {"1", "2", "3"} }
    \cup { Sentence("2", "2", "7", "B"), Sentence("2", "2", "8", "A"),
           Sentence("0", "1", "7", "A") }

SinglePartSentences ==
    { Sentence("1", "1", "", "A") }

MalformedSentences ==
    { <<"!AIVDM", "2", "1", "7", "A", "payload">>,   \* 6 fields
      Sentence("x", "1", "7", "A"),                   \* total not an integer
      Sentence("1", "", "7", "A") }                   \* total 1, part not an integer

Sentences == MultiPartSentences \cup SinglePartSentences \cup MalformedSentences

(***************************************************************************)
(* MultiPartBuffer                                                         *)
(***************************************************************************)
timeout == 60

\* the clock stops advancing one second past the timeout
MaxClock == timeout + 1

None == [kind |-> "None"]
Completed(sentences, raw_ids, ts) ==
    [kind |-> "Complete", sentences |-> sentences, raw_ids |-> raw_ids, ts |-> ts]
Raised(exc) == [kind |-> "Raise", exc |-> exc]

Outcome(buf, tss, r) == [buffer |-> buf, timestamps |-> tss, ret |-> r]

\* the fields add reads; ok is FALSE where the code returns None before using them
\* (fewer than 7 fields, or int() raising ValueError)
parse_short(nmea) ==
    LET parts == nmea IN
    IF Len(parts) < 6 \/ ~IsInt(parts[2]) \/ ~IsInt(parts[3])
    THEN [ok |-> FALSE]
    ELSE [ok |-> TRUE, total |-> int(parts[2]), seq_num |-> int(parts[3]),
          seq_id |-> parts[4], channel |-> parts[5]]

parse(nmea) ==
    LET parts == nmea IN
    IF Len(parts) < 7 THEN [ok |-> FALSE]
    ELSE IF ~IsInt(parts[2]) \/ ~IsInt(parts[3]) THEN [ok |-> FALSE]
    ELSE [ok |-> TRUE, total |-> int(parts[2]), seq_num |-> int(parts[3]),
          seq_id |-> parts[4], channel |-> parts[5]]

\* _cleanup(now): delete every key whose creation time is more than timeout ago
_cleanup_one(buf, tss, now) ==
    LET expired == {k \in DOMAIN tss : now - tss[k] > timeout}
        first == IF expired = {} THEN {} ELSE {CHOOSE k \in expired : TRUE}
    IN  [buffer |-> [k \in (DOMAIN buf) \ first |-> buf[k]],
         timestamps |-> [k \in (DOMAIN tss) \ first |-> tss[k]]]

\* (the variant evicts nothing)
_cleanup_never(buf, tss, now) == [buffer |-> buf, timestamps |-> tss]

_cleanup(buf, tss, now) ==
    LET expired == {k \in DOMAIN tss : now - tss[k] > timeout}
    IN  [buffer |-> [k \in (DOMAIN buf) \ expired |-> buf[k]],
         timestamps |-> [k \in (DOMAIN tss) \ expired |-> tss[k]]]

\* the loop of add that assembles a full entry: the sentences and raw ids of parts
\* 1..total in that order, or KeyError when one of them is not in the entry
assemble_reversed(entry, total, timestamp) ==
    IF \E i \in 1..total : i \notin DOMAIN entry
    THEN Raised("KeyError")
    ELSE Completed([i \in 1..total |-> entry[total + 1 - i].nmea],
                   [i \in 1..total |-> entry[total + 1 - i].raw_id],
                   timestamp)

assemble(entry, total, timestamp) ==
    IF \E i \in 1..total : i \notin DOMAIN entry
    THEN Raised("KeyError")
    ELSE Completed([i \in 1..total |-> entry[i].nmea],
                   [i \in 1..total |-> entry[i].raw_id],
                   timestamp)

\* add from the computation of the key on: sweep, insert, complete
\* (the variant refreshes the creation time on every fragment)
buffered_add_refresh(buf, tss, p, nmea, raw_id, timestamp, now) ==
    LET key == <<p.seq_id, p.channel, p.total>>
        swept == _cleanup(buf, tss, now)
        fresh == key \notin DOMAIN swept.buffer
        buf1 == IF fresh THEN Put(swept.buffer, key, EmptyDict) ELSE swept.buffer
        tss1 == Put(swept.timestamps, key, now)
        frag == [nmea |-> nmea, raw_id |-> raw_id, timestamp |-> timestamp]
        buf2 == Put(buf1, key, Put(buf1[key], p.seq_num, frag))
    IN
    IF Cardinality(DOMAIN buf2[key]) = p.total
    THEN LET r == assemble(buf2[key], p.total, timestamp)
         IN  IF r.kind = "Raise" THEN Outcome(buf2, tss1, r)
             ELSE Outcome(Del(buf2, key), Del(tss1, key), r)
    ELSE Outcome(buf2, tss1, None)

\* (the variant leaves the channel out of the key)
buffered_add_any_channel(buf, tss, p, nmea, raw_id, timestamp, now) ==
    LET key == <<p.seq_id, "A", p.total>>
        swept == _cleanup(buf, tss, now)
        fresh == key \notin DOMAIN swept.buffer
        buf1 == IF fresh THEN Put(swept.buffer, key, EmptyDict) ELSE swept.buffer
        tss1 == IF fresh THEN Put(swept.timestamps, key, now) ELSE swept.timestamps
        frag == [nmea |-> nmea, raw_id |-> raw_id, timestamp |-> timestamp]
        buf2 == Put(buf1, key, Put(buf1[key], p.seq_num, frag))
    IN
    IF Cardinality(DOMAIN buf2[key]) = p.total
    THEN LET r == assemble(buf2[key], p.total, timestamp)
         IN  IF r.kind = "Raise" THEN Outcome(buf2, tss1, r)
             ELSE Outcome(Del(buf2, key), Del(tss1, key), r)
    ELSE Outcome(buf2, tss1, None)

\* (the variant keeps the fragment already held under a part number)
buffered_add_keep_first(buf, tss, p, nmea, raw_id, timestamp, now) ==
    LET key == <<p.seq_id, p.channel, p.total>>
        swept == _cleanup(buf, tss, now)
        fresh == key \notin DOMAIN swept.buffer
        buf1 == IF fresh THEN Put(swept.buffer, key, EmptyDict) ELSE swept.buffer
        tss1 == IF fresh THEN Put(swept.timestamps, key, now) ELSE swept.timestamps
        frag == [nmea |-> nmea, raw_id |-> raw_id, timestamp |-> timestamp]
        buf2 == IF p.seq_num \in DOMAIN buf1[key] THEN buf1
                ELSE Put(buf1, key, Put(buf1[key], p.seq_num, frag))
    IN
    IF Cardinality(DOMAIN buf2[key]) = p.total
    THEN LET r == assemble(buf2[key], p.total, timestamp)
         IN  IF r.kind = "Raise" THEN Outcome(buf2, tss1, r)
             ELSE Outcome(Del(buf2, key), Del(tss1, key), r)
    ELSE Outcome(buf2, tss1, None)

\* the value of an expression, taken once and handed to what follows
with(value, rest(_)) == CHOOSE result \in {rest(v) : v \in {value}} : TRUE

buffered_add(buf, tss, p, nmea, raw_id, timestamp, now) ==
    with(<<p.seq_id, p.channel, p.total>>, LAMBDA key :
    with(_cleanup(buf, tss, now), LAMBDA swept :
    with(key \notin DOMAIN swept.buffer, LAMBDA fresh :
    with(IF fresh THEN Put(swept.buffer, key, EmptyDict) ELSE swept.buffer, LAMBDA buf1 :
    with(IF fresh THEN Put(swept.timestamps, key, now) ELSE swept.timestamps, LAMBDA tss1 :
    with([nmea |-> nmea, raw_id |-> raw_id, timestamp |-> timestamp], LAMBDA frag :
    with(Put(buf1, key, Put(buf1[key], p.seq_num, frag)), LAMBDA buf2 :
    IF Cardinality(DOMAIN buf2[key]) = p.total
    THEN with(assemble(buf2[key], p.total, timestamp), LAMBDA r :
              IF r.kind = "Raise" THEN Outcome(buf2, tss1, r)
              ELSE Outcome(Del(buf2, key), Del(tss1, key), r))
    ELSE Outcome(buf2, tss1, None))))))))

\* add(nmea, raw_id, timestamp), called at time now on the maps buf and tss
\* (the variant runs the sweep before the single-part return)
add_sweeps_first(buf, tss, nmea, raw_id, timestamp, now) ==
    LET p == parse(nmea)
        swept == _cleanup(buf, tss, now)
    IN
    IF ~p.ok THEN Outcome(buf, tss, None)
    ELSE IF p.total = 1
    THEN Outcome(swept.buffer, swept.timestamps,
                 Completed(<<nmea>>, <<raw_id>>, timestamp))
    ELSE buffered_add(buf, tss, p, nmea, raw_id, timestamp, now)

add(buf, tss, nmea, raw_id, timestamp, now) ==
    with(parse(nmea), LAMBDA p :
    IF ~p.ok THEN Outcome(buf, tss, None)
    ELSE IF p.total = 1 THEN Outcome(buf, tss, Completed(<<nmea>>, <<raw_id>>, timestamp))
    ELSE buffered_add(buf, tss, p, nmea, raw_id, timestamp, now))

\* get_incomplete(): the raw ids of all buffered fragments, as a bag (the list
\* without its order)
RECURSIVE IdsOfParts(_, _)
IdsOfParts(parts, todo) ==
    IF todo = {} THEN EmptyBag
    ELSE LET n == CHOOSE n \in todo : TRUE
         IN  SetToBag({parts[n].raw_id}) (+) IdsOfParts(parts, todo \ {n})

RECURSIVE IdsOfKeys(_, _)
IdsOfKeys(buf, todo) ==
    IF todo = {} THEN EmptyBag
    ELSE LET k == CHOOSE k \in todo : TRUE
         IN  IdsOfParts(buf[k], DOMAIN buf[k]) (+) IdsOfKeys(buf, todo \ {k})

get_incomplete_first_part(buf) ==
    IdsOfKeys([k \in DOMAIN buf |->
                  [n \in {m \in DOMAIN buf[k] : \A o \in DOMAIN buf[k] : m <= o}
                      |-> buf[k][n]]],
              DOMAIN buf)

get_incomplete(buf) == IdsOfKeys(buf, DOMAIN buf)

(***************************************************************************)
(* The reassembler driven call by call.                                    *)
(***************************************************************************)
\* identifiers: one more than the buffer can hold, so that a fresh one exists
RawIds == 1..(MaxBuffered + 1)

Slots(buf) == UNION {{<<k, n>> : n \in DOMAIN buf[k]} : k \in DOMAIN buf}
FragmentCount(buf) == Cardinality(Slots(buf))
BufferedIds(buf) == {buf[s[1]][s[2]].raw_id : s \in Slots(buf)}

\* raw ids are row ids, never reused while a row is buffered; which fresh id a
\* row carries is immaterial, so the smallest one is taken
FreshId(buf) == CHOOSE i \in RawIds \ BufferedIds(buf) :
                    \A j \in RawIds \ BufferedIds(buf) : i <= j

\* the timestamp column of the raw_messages row with this id (an opaque text)
RowTimestamp(raw_id) == <<"ts", raw_id>>

ReturnedIds(r) ==
    IF r.kind = "Complete" THEN {r.raw_ids[i] : i \in DOMAIN r.raw_ids} ELSE {}

\* the fragments of buf that are neither in buf2 nor returned in r
Dropped(buf, buf2, r) ==
    {[key |-> s[1], part |-> s[2], raw_id |-> buf[s[1]][s[2]].raw_id] : s \in
        {t \in Slots(buf) :
            /\ buf[t[1]][t[2]].raw_id \notin BufferedIds(buf2)
            /\ buf[t[1]][t[2]].raw_id \notin ReturnedIds(r)}}

Init ==
    /\ buffer = EmptyDict
    /\ timestamps = EmptyDict
    /\ clock = 0
    /\ call = [op |-> "init"]
    /\ ret = None
    /\ lost = {}
    /\ rows = <<>>
    /\ alive = TRUE
    /\ prior = None

Tick ==
    \E d \in TickSteps :
        /\ clock + d <= MaxClock
        /\ clock' = clock + d
        /\ call' = [op |-> "tick"]
        /\ ret' = None
        /\ lost' = {}
        /\ UNCHANGED <<buffer, timestamps, rows, alive, prior>>

Add ==
    \E nmea \in Sentences :
        LET raw_id == FreshId(buffer)
            out == add(buffer, timestamps, nmea, raw_id, RowTimestamp(raw_id), clock)
        IN  /\ FragmentCount(out.buffer) <= MaxBuffered
            /\ buffer' = out.buffer
            /\ timestamps' = out.timestamps
            /\ ret' = out.ret
            /\ lost' = Dropped(buffer, out.buffer, out.ret)
            /\ call' = [op |-> "add", nmea |-> nmea, raw_id |-> raw_id, now |-> clock]
            /\ UNCHANGED <<clock, rows, alive, prior>>

GetIncomplete ==
    /\ ret' = [kind |-> "Incomplete", ids |-> get_incomplete(buffer)]
    /\ call' = [op |-> "get_incomplete"]
    /\ lost' = {}
    /\ UNCHANGED <<buffer, timestamps, clock, rows, alive, prior>>

Next == Tick \/ Add \/ GetIncomplete

Spec == Init /\ [][Next]_vars

(***************************************************************************)
(* Vocabulary of the claims about the reassembler.                         *)
(***************************************************************************)
\* field[1] and field[2] exist and are integers, and there are 7 fields or more
WellFormed(nmea) == Len(nmea) >= 7 /\ IsInt(nmea[2]) /\ IsInt(nmea[3])
Total(nmea) == int(nmea[2])
Part(nmea) == int(nmea[3])
Key(nmea) == <<nmea[4], nmea[5], Total(nmea)>>

\* add runs its sweep for this sentence
Buffers(nmea) == WellFormed(nmea) /\ Total(nmea) # 1

\* what a call of add made now, with a fresh id, would do
AddNow(nmea) ==
    add(buffer, timestamps, nmea, FreshId(buffer), RowTimestamp(FreshId(buffer)), clock)

Expired(k) == clock - timestamps[k] > timeout

\* the part numbers held under k that a sweep made now leaves in place
HeldNow(k) == IF k \in DOMAIN buffer /\ ~Expired(k) THEN DOMAIN buffer[k] ELSE {}

IdsIn(buf) == BagToSet(get_incomplete(buf))

(***************************************************************************)
(* C1. A group of N >= 2 fragments with part numbers 1..N, arriving in any *)
(* order within the timeout with no other fragment under its key: every    *)
(* add but the last returns None and keeps the entry; the add that brings  *)
(* the last missing part returns the N sentences and the N identifiers in  *)
(* ascending part order and removes the key from both maps.                *)
(***************************************************************************)
C1_Completion ==
    \A nmea \in Sentences :
        (Buffers(nmea) /\ Total(nmea) >= 2 /\ Part(nmea) \in 1..Total(nmea)
            /\ HeldNow(Key(nmea)) \subseteq 1..Total(nmea))
        =>
        LET k == Key(nmea)
            N == Total(nmea)
            p == Part(nmea)
            out == AddNow(nmea)
        IN  IF HeldNow(k) \cup {p} = 1..N
            THEN /\ out.ret.kind = "Complete"
                 /\ out.ret.sentences =
                        [i \in 1..N |-> IF i = p THEN nmea ELSE buffer[k][i].nmea]
                 /\ out.ret.raw_ids =
                        [i \in 1..N |-> IF i = p THEN FreshId(buffer)
                                        ELSE buffer[k][i].raw_id]
                 /\ k \notin DOMAIN out.buffer
                 /\ k \notin DOMAIN out.timestamps
            ELSE /\ out.ret = None
                 /\ k \in DOMAIN out.buffer
                 /\ DOMAIN out.buffer[k] = HeldNow(k) \cup {p}

\* a 3-part group has just completed on the arrival of a part other than part 3
C1_Witness ==
    /\ call.op = "add"
    /\ ret.kind = "Complete"
    /\ Len(ret.sentences) = 3
    /\ Part(call.nmea) # 3
    /\ \A i \in 1..3 : Part(ret.sentences[i]) = i
    /\ Key(call.nmea) \notin DOMAIN buffer
    /\ Key(call.nmea) \notin DOMAIN timestamps

(***************************************************************************)
(* C2. An entry's age runs from its creation and later fragments do not    *)
(* extend it.  A sweep run more than the timeout after the creation        *)
(* removes the entry with all its fragments: their identifiers are in      *)
(* get_incomplete() before the call and not after it, and a fragment of    *)
(* the same key arriving then returns None and starts a fresh entry.       *)
(***************************************************************************)
C2_TimeoutEviction ==
    \A nmea \in Sentences :
        Buffers(nmea) =>
        LET out == AddNow(nmea) IN
        /\ \A k \in DOMAIN timestamps :
            IF Expired(k)
            THEN /\ \A n \in DOMAIN buffer[k] :
                        /\ buffer[k][n].raw_id \in IdsIn(buffer)
                        /\ buffer[k][n].raw_id \notin IdsIn(out.buffer)
                 /\ Key(nmea) = k =>
                        /\ out.ret = None
                        /\ k \in DOMAIN out.buffer
                        /\ DOMAIN out.buffer[k] = {Part(nmea)}
                        /\ out.timestamps[k] = clock
                 /\ Key(nmea) # k =>
                        /\ k \notin DOMAIN out.buffer
                        /\ k \notin DOMAIN out.timestamps
            ELSE k \in DOMAIN out.timestamps => out.timestamps[k] = timestamps[k]
        /\ (Key(nmea) \notin DOMAIN timestamps /\ Key(nmea) \in DOMAIN out.timestamps)
                => out.timestamps[Key(nmea)] = clock

\* the last call brought the one missing part of a 2-part group whose other part
\* was evicted by that very call: it returned None and began a new entry
C2_Witness ==
    /\ call.op = "add"
    /\ ret = None
    /\ Buffers(call.nmea)
    /\ \E f \in lost :
        /\ f.key = Key(call.nmea)
        /\ f.part # Part(call.nmea)
        /\ {f.part, Part(call.nmea)} = 1..Total(call.nmea)
        /\ f.raw_id \notin IdsIn(buffer)
    /\ DOMAIN buffer[Key(call.nmea)] = {Part(call.nmea)}
    /\ timestamps[Key(call.nmea)] = call.now

(***************************************************************************)
(* C3 as stated: after any call of add made at time now returns, no entry  *)
(* of the buffer was created more than the timeout before now.             *)
(***************************************************************************)
C3_SweepOnEveryAdd ==
    call.op = "add" =>
        \A k \in DOMAIN timestamps : call.now - timestamps[k] <= timeout

(***************************************************************************)
(* C3 amended: after a call of add with a well-formed sentence whose       *)
(* total_parts is not 1, made at time now, no entry of the buffer was      *)
(* created more than the timeout before now.                               *)
(***************************************************************************)
C3_SweepOnBufferingAdd ==
    (call.op = "add" /\ Buffers(call.nmea)) =>
        \A k \in DOMAIN timestamps : call.now - timestamps[k] <= timeout

\* a buffering add has just run its sweep and evicted something
C3_Witness ==
    /\ call.op = "add"
    /\ Buffers(call.nmea)
    /\ call.now > timeout
    /\ lost # {}
    /\ DOMAIN timestamps # {}

(***************************************************************************)
(* C4 as stated: add never raises; it returns None or a completed tuple.   *)
(***************************************************************************)
C4_AddNeverRaises ==
    call.op = "add" => ret.kind \in {"None", "Complete"}

(***************************************************************************)
(* C6. A sentence with fewer than 7 fields, or whose field[1] or field[2]  *)
(* is not an integer, makes add return None and leaves the buffer map and  *)
(* the timestamps map exactly as they were.                                *)
(***************************************************************************)
C6_MalformedRejected ==
    \A nmea \in Sentences :
        ~WellFormed(nmea) =>
            /\ AddNow(nmea).ret = None
            /\ AddNow(nmea).buffer = buffer
            /\ AddNow(nmea).timestamps = timestamps

\* a malformed sentence was just rejected while an expired entry sat in the buffer
C6_Witness ==
    /\ call.op = "add"
    /\ ~WellFormed(call.nmea)
    /\ ret = None
    /\ \E k \in DOMAIN timestamps : call.now - timestamps[k] > timeout

(***************************************************************************)
(* C7. A well-formed sentence with total_parts = 1 makes add return        *)
(* ([sentence], [identifier], timestamp) and leaves both maps unchanged.   *)
(***************************************************************************)
C7_SinglePart ==
    \A nmea \in Sentences :
        (WellFormed(nmea) /\ Total(nmea) = 1) =>
            /\ AddNow(nmea).ret =
                   Completed(<<nmea>>, <<FreshId(buffer)>>, RowTimestamp(FreshId(buffer)))
            /\ AddNow(nmea).buffer = buffer
            /\ AddNow(nmea).timestamps = timestamps

\* a single-part sentence was just returned while an expired entry sat in the buffer
C7_Witness ==
    /\ call.op = "add"
    /\ WellFormed(call.nmea)
    /\ Total(call.nmea) = 1
    /\ ret = Completed(<<call.nmea>>, <<call.raw_id>>, RowTimestamp(call.raw_id))
    /\ \E k \in DOMAIN timestamps : call.now - timestamps[k] > timeout

(***************************************************************************)
(* C8. get_incomplete() returns exactly one identifier per fragment held   *)
(* in the buffer, over all keys, and changes neither map; the identifiers  *)
(* of a completed group, of evicted fragments, of a single-part sentence   *)
(* and of a rejected sentence are not among them after the add that        *)
(* completed, evicted, returned or rejected them.                          *)
(***************************************************************************)
C8_GetIncomplete ==
    [][ /\ call'.op = "get_incomplete" =>
            /\ buffer' = buffer
            /\ timestamps' = timestamps
            /\ \A id \in RawIds \cup BagToSet(ret'.ids) :
                   CopiesIn(id, ret'.ids) =
                       Cardinality({s \in Slots(buffer) :
                                        buffer[s[1]][s[2]].raw_id = id})
        /\ call'.op = "add" =>
            /\ ReturnedIds(ret') \cap IdsIn(buffer') = {}
            /\ \A f \in lost' : f.raw_id \notin IdsIn(buffer')
            /\ ~Buffers(call'.nmea) => call'.raw_id \notin IdsIn(buffer')
      ]_vars

\* get_incomplete has just reported two fragments held under two different keys
C8_Witness ==
    /\ call.op = "get_incomplete"
    /\ BagCardinality(ret.ids) = 2
    /\ Cardinality(DOMAIN buffer) = 2

(***************************************************************************)
(* AISDecoder.process_batch over the raw_messages table.                   *)
(*                                                                         *)
(* The capture process inserts rows with decoded = 0; the decoder process  *)
(* fetches up to batch_size pending rows in id order, feeds each to the    *)
(* reassembler and writes the status of the rows back:                     *)
(*    0 pending, 2 buffered, 1 decoded, -1 failed.                         *)
(* One call of process_batch is one step; its adds all see the same clock. *)
(***************************************************************************)
MaxRows == 3     \* at most this many rows are ever stored
batch_size == 2  \* AISDecoder.batch_size (DEFAULT_BATCH_SIZE in the source)

NULL == "NULL"
IncompleteError == "Incomplete multi-part message (timeout)"
DecodeError == "Decode error"

\* sentences the capture process stores
StoredSentences ==
    { Sentence("2", "1", "7", "A"), Sentence("2", "2", "7", "A"),
      Sentence("2", "3", "7", "A"),
      Sentence("1", "1", "", "A"),
      <<"!AIVDM", "1", "1", "", "A", "garbage", "0*00">>,
      <<"!AIVDM", "2", "1", "7", "A", "payload">> }

\* pyais decode and the _store_* calls, as _decode_and_store sees them: a group
\* decodes when none of its payload fields is garbage; any failure is caught and
\* reported as (False, error)
_decode_and_store(sentences) ==
    IF \A i \in DOMAIN sentences : sentences[i][6] = "payload"
    THEN [success |-> TRUE, error |-> NULL]
    ELSE [success |-> FALSE, error |-> DecodeError]

\* INSERT INTO raw_messages: the new row takes the next id and is pending
store(rws, nmea) == Append(rws, [nmea |-> nmea, decoded |-> 0, decode_error |-> NULL])

\* SELECT id ... WHERE decoded = 0 ORDER BY id LIMIT batch_size
RECURSIVE Ascending(_)
Ascending(ids) ==
    IF ids = {} THEN <<>>
    ELSE LET least == CHOOSE i \in ids : \A j \in ids : i <= j
         IN  <<least>> \o Ascending(ids \ {least})

fetch(rws) ==
    LET pending == Ascending({i \in DOMAIN rws : rws[i].decoded = 0})
    IN  SubSeq(pending, 1, IF Len(pending) < batch_size THEN Len(pending) ELSE batch_size)

\* UPDATE raw_messages SET decoded = d [, decode_error = e] WHERE id IN ids
mark(rws, ids, d) ==
    [i \in DOMAIN rws |-> IF i \in ids THEN [rws[i] EXCEPT !.decoded = d] ELSE rws[i]]

mark_error(rws, ids, d, e) ==
    [i \in DOMAIN rws |->
        IF i \in ids THEN [rws[i] EXCEPT !.decoded = d, !.decode_error = e] ELSE rws[i]]

\* the body of the loop over the fetched rows, for the row raw_id
process_row(st, raw_id, now) ==
    with(add(st.buffer, st.timestamps, st.rows[raw_id].nmea, raw_id,
             RowTimestamp(raw_id), now),
         LAMBDA out :
    LET held == [st EXCEPT !.buffer = out.buffer, !.timestamps = out.timestamps]
    IN
    IF out.ret.kind = "Raise" THEN [held EXCEPT !.raised = out.ret]
    ELSE IF out.ret = None THEN [held EXCEPT !.rows = mark(st.rows, {raw_id}, 2)]
    ELSE LET res == _decode_and_store(out.ret.sentences)
             ids == ReturnedIds(out.ret)
         IN  [held EXCEPT
                !.rows = IF res.success THEN mark(st.rows, ids, 1)
                         ELSE mark_error(st.rows, ids, -1, res.error),
                !.processed = st.processed + Len(out.ret.raw_ids),
                !.completed = st.completed \cup ids])

RECURSIVE process_rows(_, _, _)
process_rows(st, fetched, now) ==
    IF fetched = <<>> \/ st.raised # None THEN st
    ELSE with(process_row(st, Head(fetched), now),
              LAMBDA next : process_rows(next, Tail(fetched), now))

\* after the loop: every fragment still in the buffer is marked failed
mark_incomplete(st, now) ==
    [st EXCEPT !.rows = mark_error(st.rows, BagToSet(get_incomplete(st.buffer)),
                                   -1, IncompleteError)]

\* process_batch called at time now: the buffer, the committed table and the value
\* returned.  An exception leaving add leaves the transaction uncommitted.
process_batch(buf, tss, rws, now) ==
    with(fetch(rws), LAMBDA fetched :
    with([buffer |-> buf, timestamps |-> tss, rows |-> rws, processed |-> 0,
          completed |-> {}, raised |-> None], LAMBDA st0 :
    IF fetched = <<>> THEN st0
    ELSE with(process_rows(st0, fetched, now), LAMBDA st1 :
              IF st1.raised # None THEN [st1 EXCEPT !.rows = rws]
              ELSE mark_incomplete(st1, now))))

Store ==
    \E nmea \in StoredSentences :
        /\ Len(rows) < MaxRows
        /\ rows' = store(rows, nmea)
        /\ call' = [op |-> "store"]
        /\ ret' = None
        /\ lost' = {}
        /\ UNCHANGED <<buffer, timestamps, clock, alive, prior>>

ProcessBatch ==
    /\ alive
    /\ \E st \in {process_batch(buffer, timestamps, rows, clock)} :
           /\ buffer' = st.buffer
           /\ timestamps' = st.timestamps
           /\ rows' = st.rows
           /\ alive' = (st.raised = None)
           /\ ret' = IF st.raised # None THEN st.raised
                     ELSE [kind |-> "Batch", processed |-> st.processed,
                           completed |-> st.completed]
    /\ call' = [op |-> "process_batch", now |-> clock]
    /\ lost' = {}
    /\ UNCHANGED <<clock, prior>>

NextBatch == Tick \/ Store \/ ProcessBatch

SpecBatch == Init /\ [][NextBatch]_vars

(***************************************************************************)
(* C5 as stated: a row that process_batch has marked decoded = -1 with the *)
(* incomplete-message error is permanently failed: no later step returns   *)
(* it from add as part of a completed group, and no later step re-marks    *)
(* it decoded = 1.                                                         *)
(***************************************************************************)
C5_IncompleteIsPermanent ==
    [][ \A i \in DOMAIN rows :
            (rows[i].decoded = -1 /\ rows[i].decode_error = IncompleteError) =>
                /\ rows'[i].decoded # 1
                /\ ret'.kind = "Batch" => i \notin ret'.completed
      ]_vars

(***************************************************************************)
(* ais_binary: the binary payload decoder.                                 *)
(*                                                                         *)
(* Representation.  bytes is the sequence of its byte values (1-based); a  *)
(* str handed to the decoder is the sequence of its code points; a float   *)
(* is the exact fraction [num, den] the source computes; a dict is a       *)
(* function on its keys; an f-string is a record of its text and values.   *)
(* A call either returns, Ok(value), or raises, Err(exception).            *)
(***************************************************************************)
Ok(v) == [ok |-> TRUE, val |-> v]
Err(e) == [ok |-> FALSE, exc |-> e]

\* the statements after a call run on its value, unless it raised
then(r, rest(_)) == IF r.ok THEN rest(r.val) ELSE r

\* try: ... except Exception as e: ...
catch(r, handler(_)) == IF r.ok THEN r ELSE handler(r.exc)

\* BitReader.__post_init__
num_bits(data) == Len(data) * 8

\* ValueError(f"Bit range [{offset}:{offset+width}] exceeds data length ({num_bits} bits)")
RangeError(data, offset, width) ==
    [type |-> "ValueError", msg |-> "Bit range exceeds data length",
     lo |-> offset, hi |-> offset + width, num_bits |-> num_bits(data)]

\* ValueError(f"String width must be multiple of 6, got {width}")
WidthError(width) ==
    [type |-> "ValueError", msg |-> "String width must be multiple of 6", got |-> width]

\* the variant counts the bits of a byte from its least significant end
bit_lsb_first(data, bit_pos) == (data[bit_pos \div 8 + 1] \div (2 ^ (bit_pos % 8))) % 2

\* self.data[byte_idx] & (1 << bit_idx), most significant bit first
bit(data, bit_pos) ==
    LET byte_idx == bit_pos \div 8
        bit_idx == 7 - (bit_pos % 8)
    IN  (data[byte_idx + 1] \div (2 ^ bit_idx)) % 2

\* the variant gives bit offset+i the weight 2^i
RECURSIVE uint_bits_lsb_first(_, _, _)
uint_bits_lsb_first(data, offset, width) ==
    IF width = 0 THEN 0
    ELSE bit(data, offset) + 2 * uint_bits_lsb_first(data, offset + 1, width - 1)

\* the loop of get_uint: bit offset+i carries the weight 2^(width-1-i)
RECURSIVE uint_bits(_, _, _)
uint_bits(data, offset, width) ==
    IF width = 0 THEN 0
    ELSE 2 * uint_bits(data, offset, width - 1) + bit(data, offset + width - 1)

\* the variant reads zeros past the end of the data instead of raising
get_uint_unchecked(data, offset, width) ==
    LET padded == data \o [i \in 1..((offset + width) \div 8 + 1) |-> 0]
    IN  Ok(uint_bits(padded, offset, width))

\* the variant checks the range of an empty read too
get_uint_strict(data, offset, width) ==
    IF offset + width > num_bits(data) THEN Err(RangeError(data, offset, width))
    ELSE Ok(uint_bits(data, offset, width))

get_uint(data, offset, width) ==
    IF width = 0 THEN Ok(0)
    ELSE IF offset + width > num_bits(data) THEN Err(RangeError(data, offset, width))
    ELSE Ok(uint_bits(data, offset, width))

\* the variant leaves the sign bit a value bit
get_int_unsigned(data, offset, width) == get_uint(data, offset, width)

get_int(data, offset, width) ==
    then(get_uint(data, offset, width),
         LAMBDA value : Ok(IF (value \div (2 ^ (width - 1))) % 2 = 1
                           THEN value - 2 ^ width
                           ELSE value))

get_bool(data, offset) ==
    then(get_uint(data, offset, 1), LAMBDA value : Ok(value = 1))

\* the variant removes every '@' and space, the inner ones too
rstrip_all(chars) == SelectSeq(chars, LAMBDA c : c \notin {64, 32})

\* ''.join(chars).rstrip('@ ')
RECURSIVE rstrip(_)
rstrip(chars) ==
    IF chars = <<>> THEN <<>>
    ELSE IF chars[Len(chars)] \in {64, 32} THEN rstrip(SubSeq(chars, 1, Len(chars) - 1))
    ELSE chars

\* the loop of get_string from character i on
RECURSIVE string_chars(_, _, _, _, _)
string_chars(data, offset, count, i, chars) ==
    IF i >= count THEN Ok(chars)
    ELSE then(get_uint(data, offset + i * 6, 6),
              LAMBDA value :
                  string_chars(data, offset, count, i + 1,
                               Append(chars, IF value < 32 THEN value + 64 ELSE value)))

get_string(data, offset, width) ==
    IF width % 6 # 0 THEN Err(WidthError(width))
    ELSE then(string_chars(data, offset, IF width <= 0 THEN 0 ELSE width \div 6, 0, <<>>),
              LAMBDA joined : Ok(rstrip(joined)))

\* the variant leaves out the step over the gap between 'W' and '`'
char_bits_no_gap(char) == [i \in 1..6 |-> (((char - 48) % 64) \div (2 ^ (6 - i))) % 2]

\* bits_from_ais_payload: six bits per character, most significant first
char_bits(char) ==
    LET shifted == char - 48
        val == IF shifted > 40 THEN shifted - 8 ELSE shifted
        low == val % 64
    IN  [i \in 1..6 |-> (low \div (2 ^ (6 - i))) % 2]

RECURSIVE payload_bits(_)
payload_bits(payload) ==
    IF payload = <<>> THEN <<>>
    ELSE char_bits(Head(payload)) \o payload_bits(Tail(payload))

\* bits[:-pad] when pad is not 0
drop_pad(bits, pad) ==
    IF pad = 0 THEN bits
    ELSE IF pad > 0 THEN SubSeq(bits, 1, IF Len(bits) > pad THEN Len(bits) - pad ELSE 0)
    ELSE SubSeq(bits, 1, IF Len(bits) < -pad THEN Len(bits) ELSE -pad)

\* the variant leaves the bits of a partly filled last byte at its low end
pack_byte_low(bits, first) ==
    LET count == IF Len(bits) - first + 1 < 8 THEN Len(bits) - first + 1 ELSE 8
    IN  IF count <= 0 THEN 0
        ELSE LET weigh[j \in 0..count] ==
                     IF j = 0 THEN 0 ELSE 2 * weigh[j - 1] + bits[first + j - 1]
             IN  weigh[count]

\* eight bits per byte, the last byte filled with zero bits on the right
pack_byte(bits, first) ==
    LET at(j) == IF first + j <= Len(bits) THEN bits[first + j] ELSE 0
    IN  128 * at(0) + 64 * at(1) + 32 * at(2) + 16 * at(3)
        + 8 * at(4) + 4 * at(5) + 2 * at(6) + at(7)

bits_from_ais_payload(payload, pad) ==
    LET bits == drop_pad(payload_bits(payload), pad)
    IN  [n \in 1..((Len(bits) + 7) \div 8) |-> pack_byte(bits, 8 * (n - 1) + 1)]

\* the characters the payload strings are written with, as runs of consecutive
\* code points
Runs ==
    << [first |-> 48, chars |-> <<"0", "1", "2", "3", "4", "5", "6", "7", "8", "9">>],
       [first |-> 65, chars |-> <<"A", "B", "C", "D", "E", "F", "G", "H", "I", "J", "K", "L", "M",
                                  "N", "O", "P", "Q", "R", "S", "T", "U", "V", "W", "X", "Y", "Z">>],
       [first |-> 97, chars |-> <<"a", "b", "c", "d", "e", "f", "g", "h", "i", "j", "k", "l", "m",
                                  "n", "o", "p", "q", "r", "s", "t", "u", "v", "w", "x", "y", "z">>],
       [first |-> 32, chars |-> <<" ">>],
       [first |-> 63, chars |-> <<"?", "@">>] >>

ord(c) ==
    LET run == CHOOSE r \in DOMAIN Runs : \E i \in DOMAIN Runs[r].chars : Runs[r].chars[i] = c
        pos == CHOOSE i \in DOMAIN Runs[run].chars : Runs[run].chars[i] = c
    IN  Runs[run].first + pos - 1

\* the str written with the characters cs
text(cs) == [i \in DOMAIN cs |-> ord(cs[i])]

\* the variant writes the digits above 9 in upper case
hex_digit_upper(n) == IF n < 10 THEN 48 + n ELSE 55 + n

\* bytes.hex(): two lowercase hexadecimal digits per byte
hex_digit(n) == IF n < 10 THEN 48 + n ELSE 87 + n

RECURSIVE hex(_)
hex(data) ==
    IF data = <<>> THEN <<>>
    ELSE <<hex_digit(Head(data) \div 16), hex_digit(Head(data) % 16)>> \o hex(Tail(data))

\* bytes.fromhex(): ASCII whitespace is skipped between bytes; a byte is two
\* hexadecimal digits of either case; anything else raises ValueError
Whitespace == {9, 10, 11, 12, 13, 32}

IsHexDigit(c) == c \in (48..57) \cup (65..70) \cup (97..102)

hex_value(c) == IF c <= 57 THEN c - 48 ELSE IF c <= 70 THEN c - 55 ELSE c - 87

FromHexError == [type |-> "ValueError", msg |-> "non-hexadecimal number found in fromhex() arg"]

\* the variant takes whitespace for a character that is not a hexadecimal digit
RECURSIVE fromhex_strict(_)
fromhex_strict(s) ==
    IF s = <<>> THEN Ok(<<>>)
    ELSE IF Len(s) < 2 \/ ~IsHexDigit(s[1]) \/ ~IsHexDigit(s[2]) THEN Err(FromHexError)
    ELSE then(fromhex_strict(SubSeq(s, 3, Len(s))),
              LAMBDA rest : Ok(<<16 * hex_value(s[1]) + hex_value(s[2])>> \o rest))

RECURSIVE fromhex(_)
fromhex(s) ==
    IF s = <<>> THEN Ok(<<>>)
    ELSE IF s[1] \in Whitespace THEN fromhex(Tail(s))
    ELSE IF Len(s) < 2 \/ ~IsHexDigit(s[1]) \/ ~IsHexDigit(s[2]) THEN Err(FromHexError)
    ELSE LET rest == fromhex(SubSeq(s, 3, Len(s))) IN
         IF ~rest.ok THEN rest
         ELSE Ok(<<16 * hex_value(s[1]) + hex_value(s[2])>> \o rest.val)

\* hex(n) of the unsigned value of width bits at offset, computed on the bits
\* (an 87-bit value does not fit the integers of the model)
nibble(data, offset, width, k) ==
    LET at(j) == IF j >= 0 THEN bit(data, offset + j) ELSE 0
        first == width - 4 * (k + 1)
    IN  8 * at(first) + 4 * at(first + 1) + 2 * at(first + 2) + at(first + 3)

RECURSIVE strip_zeros(_)
strip_zeros(digits) ==
    IF Len(digits) > 1 /\ digits[1] = 48 THEN strip_zeros(Tail(digits)) ELSE digits

hex_of_uint(data, offset, width) ==
    IF offset + width > num_bits(data) THEN Err(RangeError(data, offset, width))
    ELSE LET count == (width + 3) \div 4
             digits == [i \in 1..count |-> hex_digit(nibble(data, offset, width, count - i))]
         IN  Ok(text(<<"0", "x">>) \o strip_zeros(digits))

(***************************************************************************)
(* A layout is the list of the reads a decode_<dac>_<fid> function makes,  *)
(* in the order Python evaluates them: the key the value is stored under,  *)
(* the BitReader method, the bit offset (relative to base) and width, and  *)
(* the arithmetic applied to the value read: v * mul + plus for an int,     *)
(* (v * mul + plus) / den for a float.                                     *)
(***************************************************************************)
Fld(name, get, offset, width) ==
    [name |-> name, get |-> get, offset |-> offset, width |-> width,
     float |-> FALSE, mul |-> 1, plus |-> 0, den |-> 1]

Lin(name, get, offset, width, mul, plus) ==
    [name |-> name, get |-> get, offset |-> offset, width |-> width,
     float |-> FALSE, mul |-> mul, plus |-> plus, den |-> 1]

Flt(name, get, offset, width, mul, plus, den) ==
    [name |-> name, get |-> get, offset |-> offset, width |-> width,
     float |-> TRUE, mul |-> mul, plus |-> plus, den |-> den]

\* one read: the call of the BitReader method and the arithmetic on its value
read(data, base, f) ==
    then(CASE f.get = "uint" -> get_uint(data, base + f.offset, f.width)
           [] f.get = "int" -> get_int(data, base + f.offset, f.width)
           [] f.get = "bool" -> get_bool(data, base + f.offset)
           [] f.get = "string" -> get_string(data, base + f.offset, f.width),
         LAMBDA value :
             IF f.get \in {"bool", "string"} THEN Ok(value)
             ELSE IF f.float THEN Ok([num |-> value * f.mul + f.plus, den |-> f.den])
             ELSE Ok(value * f.mul + f.plus))

\* the reads of fields from the i-th on, added to the dict so far; the first read
\* that raises ends the evaluation
RECURSIVE read_fields(_, _, _, _, _)
read_fields(data, base, fields, i, dict) ==
    IF i > Len(fields) THEN Ok(dict)
    ELSE then(read(data, base, fields[i]),
              LAMBDA value :
                  read_fields(data, base, fields, i + 1, dict @@ (fields[i].name :> value)))

layout(data, base, consts, fields) == read_fields(data, base, fields, 1, consts)

\* the same layout read count times, stride bits apart: a list of dicts
RECURSIVE repeated(_, _, _, _, _, _)
repeated(data, base, stride, count, fields, items) ==
    IF count <= 0 THEN Ok(items)
    ELSE then(layout(data, base, <<>>, fields),
              LAMBDA item :
                  repeated(data, base + stride, stride, count - 1, fields, Append(items, item)))

min(a, b) == IF a < b THEN a ELSE b

(***************************************************************************)
(* dac001: DAC 1 (IMO) layouts.                                            *)
(***************************************************************************)

decode_001_11(data) ==
    layout(data, 0, ("fid" :> 11) @@ ("description" :> "Met/Hydro (IMO 236, deprecated)"),
           << Flt("latitude", "int", 0, 24, 1, 0, 60000),
              Flt("longitude", "int", 24, 25, 1, 0, 60000),
              Fld("day", "uint", 49, 5),
              Fld("hour", "uint", 54, 5),
              Fld("minute", "uint", 59, 6),
              Fld("wind_ave_kts", "uint", 65, 7),
              Fld("wind_gust_kts", "uint", 72, 7),
              Fld("wind_dir", "uint", 79, 9),
              Fld("wind_gust_dir", "uint", 88, 9),
              Flt("air_temp_c", "uint", 97, 11, 1, -600, 10),
              Fld("rel_humidity_pct", "uint", 108, 7),
              Flt("dew_point_c", "uint", 115, 10, 1, -200, 10),
              Lin("air_pressure_hpa", "uint", 125, 9, 1, 800),
              Fld("air_pressure_trend", "uint", 134, 2),
              Flt("horz_visibility_nm", "uint", 136, 8, 1, 0, 10),
              Flt("water_level_m", "uint", 144, 9, 1, -100, 10),
              Fld("water_level_trend", "uint", 153, 2),
              Flt("surf_cur_speed_kts", "uint", 155, 8, 1, 0, 10),
              Fld("surf_cur_dir", "uint", 163, 9),
              Flt("cur_speed_2_kts", "uint", 172, 8, 1, 0, 10),
              Fld("cur_dir_2", "uint", 180, 9),
              Fld("cur_depth_2_m", "uint", 189, 5),
              Flt("cur_speed_3_kts", "uint", 194, 8, 1, 0, 10),
              Fld("cur_dir_3", "uint", 202, 9),
              Fld("cur_depth_3_m", "uint", 211, 5),
              Flt("wave_height_m", "uint", 216, 8, 1, 0, 10),
              Fld("wave_period_s", "uint", 224, 6),
              Fld("wave_dir", "uint", 230, 9),
              Flt("swell_height_m", "uint", 239, 8, 1, 0, 10),
              Fld("swell_period_s", "uint", 247, 6),
              Fld("swell_dir", "uint", 253, 9),
              Fld("sea_state_beaufort", "uint", 262, 4),
              Flt("water_temp_c", "uint", 266, 10, 1, -100, 10),
              Fld("precip_type", "uint", 276, 3),
              Flt("salinity_ppt", "uint", 279, 9, 1, 0, 10),
              Fld("ice", "uint", 288, 2) >>)

decode_001_13(data) ==
    layout(data, 0, ("fid" :> 13) @@ ("description" :> "Fairway Closed"),
           << Fld("reason", "string", 0, 120),
              Fld("location_from", "string", 120, 120),
              Fld("location_to", "string", 240, 120),
              Fld("radius", "uint", 360, 10),
              Fld("units", "uint", 370, 2),
              Fld("day_from", "uint", 372, 5),
              Fld("month_from", "uint", 377, 4),
              Fld("hour_from", "uint", 381, 5),
              Fld("minute_from", "uint", 386, 6),
              Fld("day_to", "uint", 392, 5),
              Fld("month_to", "uint", 397, 4),
              Fld("hour_to", "uint", 401, 5),
              Fld("minute_to", "uint", 406, 6) >>)

\* the variant takes the value for hundredths of a metre
decode_001_15_hundredths(data) ==
    layout(data, 0, ("fid" :> 15) @@ ("description" :> "Extended Ship Static (Air Draught)"),
           << Flt("air_draught_m", "uint", 0, 11, 1, 0, 100) >>)

decode_001_15(data) ==
    layout(data, 0, ("fid" :> 15) @@ ("description" :> "Extended Ship Static (Air Draught)"),
           << Flt("air_draught_m", "uint", 0, 11, 1, 0, 10) >>)

decode_001_16(data) ==
    layout(data, 0, ("fid" :> 16) @@ ("description" :> "Number of Persons on Board"),
           << Fld("persons", "uint", 0, 13) >>)

decode_001_19(data) ==
    layout(data, 0, ("fid" :> 19) @@ ("description" :> "Marine Traffic Signal"),
           << Flt("longitude", "int", 130, 25, 1, 0, 60000),
              Flt("latitude", "int", 155, 24, 1, 0, 60000),
              Fld("link_id", "uint", 0, 10),
              Fld("name", "string", 10, 120),
              Fld("status", "uint", 179, 2),
              Fld("signal", "uint", 181, 5),
              Fld("utc_hour_next", "uint", 186, 5),
              Fld("utc_min_next", "uint", 191, 6),
              Fld("next_signal", "uint", 197, 5) >>)

decode_001_31(data) ==
    layout(data, 0, ("fid" :> 31) @@ ("description" :> "Met/Hydro (IMO 289)"),
           << Flt("longitude", "int", 0, 25, 1, 0, 60000),
              Flt("latitude", "int", 25, 24, 1, 0, 60000),
              Fld("position_accuracy", "bool", 49, 1),
              Fld("day", "uint", 50, 5),
              Fld("hour", "uint", 55, 5),
              Fld("minute", "uint", 60, 6),
              Fld("wind_ave_kts", "uint", 66, 7),
              Fld("wind_gust_kts", "uint", 73, 7),
              Fld("wind_dir", "uint", 80, 9),
              Fld("wind_gust_dir", "uint", 89, 9),
              Flt("air_temp_c", "int", 98, 11, 1, 0, 10),
              Fld("rel_humidity_pct", "uint", 109, 7),
              Flt("dew_point_c", "int", 116, 10, 1, 0, 10),
              Flt("air_pressure_hpa", "uint", 126, 9, 1, 800, 100),
              Fld("air_pressure_trend", "uint", 135, 2),
              Flt("horz_visibility_nm", "uint", 137, 8, 1, 0, 10),
              Flt("water_level_m", "uint", 145, 12, 1, -1000, 100),
              Fld("water_level_trend", "uint", 157, 2),
              Flt("surf_cur_speed_kts", "uint", 159, 8, 1, 0, 10),
              Fld("surf_cur_dir", "uint", 167, 9),
              Flt("cur_speed_2_kts", "uint", 176, 8, 1, 0, 10),
              Fld("cur_dir_2", "uint", 184, 9),
              Fld("cur_depth_2_m", "uint", 193, 5),
              Flt("cur_speed_3_kts", "uint", 198, 8, 1, 0, 10),
              Fld("cur_dir_3", "uint", 206, 9),
              Fld("cur_depth_3_m", "uint", 215, 5),
              Flt("wave_height_m", "uint", 220, 8, 1, 0, 10),
              Fld("wave_period_s", "uint", 228, 6),
              Fld("wave_dir", "uint", 234, 9),
              Flt("swell_height_m", "uint", 243, 8, 1, 0, 10),
              Fld("swell_period_s", "uint", 251, 6),
              Fld("swell_dir", "uint", 257, 9),
              Fld("sea_state_beaufort", "uint", 266, 4),
              Flt("water_temp_c", "int", 270, 10, 1, 0, 10),
              Fld("precip_type", "uint", 280, 3),
              Flt("salinity_ppt", "uint", 283, 9, 1, 0, 10),
              Fld("ice", "uint", 292, 2) >>)

decode_001_17(data) ==
    then(repeated(data, 0, 120, min(num_bits(data) \div 120, 4),
                  << Flt("latitude", "int", 48, 24, 1, 0, 60000),
                     Flt("longitude", "int", 72, 25, 1, 0, 60000),
                     Fld("type", "uint", 0, 2),
                     Fld("id", "string", 2, 42),
                     Fld("cog", "uint", 97, 9),
                     Fld("timestamp", "uint", 106, 6),
                     Fld("sog_kts", "uint", 112, 8) >>, <<>>),
         LAMBDA targets :
             Ok(("fid" :> 17) @@ ("description" :> "VTS Generated Targets")
                @@ ("targets" :> targets)))

decode_001_21(data) ==
    then(get_bool(data, 0),
         LAMBDA type_wx :
             IF ~type_wx
             THEN layout(data, 0, ("fid" :> 21) @@ ("description" :> "Weather Observation (AIS format)") @@ ("type" :> 0),
                         << Flt("longitude", "int", 121, 25, 1, 0, 60000),
                            Flt("latitude", "int", 146, 24, 1, 0, 60000),
                            Fld("location", "string", 1, 120),
                            Fld("day", "uint", 170, 5),
                            Fld("hour", "uint", 175, 5),
                            Fld("minute", "uint", 180, 6),
                            Fld("wx_code", "uint", 186, 4),
                            Flt("horz_visibility_nm", "uint", 190, 8, 1, 0, 10),
                            Fld("humidity_pct", "uint", 198, 7),
                            Fld("wind_speed_kts", "uint", 205, 7),
                            Fld("wind_dir", "uint", 212, 9),
                            Fld("air_pressure_hpa", "uint", 221, 9),
                            Fld("air_pressure_trend", "uint", 230, 4),
                            Flt("air_temp_c", "int", 234, 11, 1, 0, 10),
                            Flt("water_temp_c", "uint", 245, 10, 1, -100, 10),
                            Fld("wave_period_s", "uint", 255, 6),
                            Flt("wave_height_m", "uint", 261, 8, 1, 0, 10),
                            Fld("wave_dir", "uint", 269, 9),
                            Flt("swell_height_m", "uint", 278, 8, 1, 0, 10),
                            Fld("swell_dir", "uint", 286, 9),
                            Fld("swell_period_s", "uint", 295, 6) >>)
             ELSE layout(data, 0, ("fid" :> 21) @@ ("description" :> "Weather Observation (WMO format)") @@ ("type" :> 1),
                         << Flt("longitude", "uint", 1, 16, 1, -18000, 100),
                            Flt("latitude", "uint", 17, 15, 1, -9000, 100),
                            Fld("month", "uint", 32, 4),
                            Fld("day", "uint", 36, 6),
                            Fld("hour", "uint", 42, 5),
                            Lin("minute", "uint", 47, 3, 10, 0),
                            Lin("cog", "uint", 50, 7, 5, 0),
                            Flt("sog_kts", "uint", 57, 5, 1, 0, 2),
                            Lin("heading", "uint", 62, 7, 5, 0),
                            Flt("pressure_hpa", "uint", 69, 11, 1, 9000, 10),
                            Flt("rel_pressure_hpa", "uint", 80, 10, 1, -500, 10),
                            Fld("pressure_trend", "uint", 90, 4),
                            Lin("wind_dir", "uint", 94, 7, 5, 0),
                            Flt("wind_speed_ms", "uint", 101, 8, 1, 0, 2),
                            Lin("wind_dir_rel", "uint", 109, 7, 5, 0),
                            Flt("wind_speed_rel_ms", "uint", 116, 8, 1, 0, 2),
                            Flt("wind_gust_speed_ms", "uint", 124, 8, 1, 0, 2),
                            Lin("wind_gust_dir", "uint", 132, 7, 5, 0),
                            Fld("air_temp_raw", "uint", 139, 10),
                            Fld("humidity_pct", "uint", 149, 7),
                            Fld("water_temp_raw", "uint", 156, 9),
                            Fld("wx_current", "uint", 171, 9),
                            Fld("wx_past_1", "uint", 180, 5),
                            Fld("wx_past_2", "uint", 185, 5),
                            Lin("cloud_total_pct", "uint", 190, 4, 10, 0),
                            Fld("cloud_low", "uint", 194, 4),
                            Fld("cloud_low_type", "uint", 198, 6),
                            Fld("cloud_middle_type", "uint", 204, 6),
                            Fld("cloud_high_type", "uint", 210, 6),
                            Fld("wave_period_s", "uint", 223, 5),
                            Flt("wave_height_m", "uint", 228, 6, 1, 0, 2),
                            Lin("swell_dir", "uint", 234, 6, 10, 0),
                            Fld("swell_period_s", "uint", 240, 5),
                            Flt("swell_height_m", "uint", 245, 6, 1, 0, 2),
                            Flt("ice_thickness_m", "uint", 268, 7, 1, 0, 100),
                            Fld("ice_accretion", "uint", 275, 3),
                            Fld("ice_accretion_cause", "uint", 278, 3) >>))

decode_001_22(data) ==
    then(layout(data, 0, ("fid" :> 22) @@ ("description" :> "Area Notice") @@ ("sub_areas" :> <<>>),
                         << Fld("link_id", "uint", 0, 10),
                            Fld("notice_type", "uint", 10, 7),
                            Fld("month", "uint", 17, 4),
                            Fld("day", "uint", 21, 5),
                            Fld("hour", "uint", 26, 5),
                            Fld("minute", "uint", 31, 6),
                            Fld("duration_min", "uint", 37, 18) >>),
         LAMBDA result :
             IF num_bits(data) > 87
             THEN Ok(("num_sub_areas" :> (num_bits(data) - 87) \div 87)
                     @@ ("sub_area_data_hex" :> hex(SubSeq(data, 12, Len(data))))
                     @@ result)
             ELSE Ok(result))

decode_001_24(data) ==
    then(repeated(data, 113, 2, 26, << Fld("status", "uint", 0, 2) >>, <<>>),
         LAMBDA solas :
             layout(data, 0,
                    ("fid" :> 24) @@ ("description" :> "Extended Ship Static and Voyage")
                    @@ ("solas_status" :> [i \in DOMAIN solas |-> solas[i].status]),
                    << Fld("link_id", "uint", 0, 10),
                       Flt("air_draught_m", "uint", 10, 13, 1, 0, 10),
                       Fld("last_port", "string", 23, 30),
                       Fld("next_port_1", "string", 53, 30),
                       Fld("next_port_2", "string", 83, 30),
                       Fld("ice_class", "uint", 165, 4),
                       Fld("shaft_power_hp", "uint", 169, 18),
                       Fld("vhf_channel", "uint", 187, 12),
                       Fld("lloyds_ship_type", "string", 199, 42),
                       Fld("gross_tonnage", "uint", 241, 18),
                       Fld("laden_ballast", "uint", 259, 2),
                       Fld("heavy_oil", "uint", 261, 2),
                       Fld("light_oil", "uint", 263, 2),
                       Fld("diesel", "uint", 265, 2),
                       Fld("bunker_oil_tonnes", "uint", 267, 14),
                       Fld("persons", "uint", 281, 13) >>))

decode_001_27(data) ==
    then(layout(data, 0, ("fid" :> 27) @@ ("description" :> "Route Information"),
                         << Fld("link_id", "uint", 0, 10),
                            Fld("sender_type", "uint", 10, 3),
                            Fld("route_type", "uint", 13, 5),
                            Fld("month", "uint", 18, 4),
                            Fld("day", "uint", 22, 5),
                            Fld("hour", "uint", 27, 5),
                            Fld("minute", "uint", 32, 6),
                            Fld("duration_min", "uint", 38, 18) >>),
         LAMBDA result :
             then(repeated(data, 61, 55,
                           min(IF num_bits(data) < 61 THEN -1
                               ELSE (num_bits(data) - 61) \div 55, 16),
                           << Flt("longitude", "int", 0, 28, 1, 0, 600000),
                              Flt("latitude", "int", 28, 27, 1, 0, 600000) >>, <<>>),
                  LAMBDA waypoints : Ok(("waypoints" :> waypoints) @@ result)))

decode_001_29(data) ==
    then(get_uint(data, 0, 10),
         LAMBDA link_id :
             then(get_string(data, 10, IF num_bits(data) < 10 THEN -6
                                       ELSE ((num_bits(data) - 10) \div 6) * 6),
                  LAMBDA text_read :
                      Ok(("fid" :> 29) @@ ("description" :> "Text Description")
                         @@ ("link_id" :> link_id) @@ ("text" :> text_read))))

(***************************************************************************)
(* dac200: DAC 200 (inland waterways) layouts.                             *)
(***************************************************************************)

INLAND_SHIP_TYPES ==
    (8000 :> "Vessel, type unknown")
    @@ (8010 :> "Motor freighter")
    @@ (8020 :> "Motor tanker")
    @@ (8021 :> "Motor tanker, liquid cargo, type N")
    @@ (8022 :> "Motor tanker, liquid cargo, type C")
    @@ (8023 :> "Motor tanker, dry cargo as if liquid")
    @@ (8030 :> "Container vessel")
    @@ (8040 :> "Gas tanker")
    @@ (8050 :> "Motor freighter, tug")
    @@ (8060 :> "Motor tanker, tug")
    @@ (8070 :> "Motor freighter with one or more ships alongside")
    @@ (8080 :> "Motor freighter with tanker")
    @@ (8090 :> "Motor freighter pushing one or more freighters")
    @@ (8100 :> "Motor freighter pushing at least one tank-Loss")
    @@ (8110 :> "Tug, freighter")
    @@ (8120 :> "Tug, tanker")
    @@ (8130 :> "Tug, freighter, coupled")
    @@ (8140 :> "Tug, freighter/tanker, coupled")
    @@ (8150 :> "Freightbarge")
    @@ (8160 :> "Tankbarge")
    @@ (8161 :> "Tankbarge, liquid cargo, type N")
    @@ (8162 :> "Tankbarge, liquid cargo, type C")
    @@ (8163 :> "Tankbarge, dry cargo as if liquid")
    @@ (8170 :> "Freightbarge with containers")
    @@ (8180 :> "Tankbarge, gas")
    @@ (8210 :> "Pushtow, one cargo barge")
    @@ (8220 :> "Pushtow, two cargo barges")
    @@ (8230 :> "Pushtow, three cargo barges")
    @@ (8240 :> "Pushtow, four cargo barges")
    @@ (8250 :> "Pushtow, five cargo barges")
    @@ (8260 :> "Pushtow, six cargo barges")
    @@ (8270 :> "Pushtow, seven cargo barges")
    @@ (8280 :> "Pushtow, eight cargo barges")
    @@ (8290 :> "Pushtow, nine or more cargo barges")
    @@ (8310 :> "Pushtow, one tank/gas barge")
    @@ (8320 :> "Pushtow, two barges at least one tanker or gas barge")
    @@ (8330 :> "Pushtow, three barges at least one tanker or gas barge")
    @@ (8340 :> "Pushtow, four barges at least one tanker or gas barge")
    @@ (8350 :> "Pushtow, five barges at least one tanker or gas barge")
    @@ (8360 :> "Pushtow, six barges at least one tanker or gas barge")
    @@ (8370 :> "Pushtow, seven barges at least one tanker or gas barge")
    @@ (8380 :> "Pushtow, eight barges at least one tanker or gas barge")
    @@ (8390 :> "Pushtow, nine or more barges at least one tanker or gas barge")
    @@ (8400 :> "Tug, single")
    @@ (8410 :> "Tug, one or more tows")
    @@ (8420 :> "Tug, assisting a vessel or convey")
    @@ (8430 :> "Pushboat, single")
    @@ (8440 :> "Passenger ship")
    @@ (8441 :> "Ferry")
    @@ (8442 :> "Red Cross ship")
    @@ (8443 :> "Cruise ship")
    @@ (8444 :> "Passenger ship without accommodation")
    @@ (8450 :> "Service vessel, police patrol")
    @@ (8460 :> "Service vessel")
    @@ (8470 :> "Object, towed, not otherwise specified")
    @@ (8480 :> "Fishing boat")
    @@ (8490 :> "Bunkership")
    @@ (8500 :> "Barge, tanker, chemical")
    @@ (8510 :> "Object, not otherwise specified")

decode_200_10(data) ==
    then(layout(data, 0, ("fid" :> 10) @@ ("description" :> "Inland Ship Static and Voyage"),
                         << Fld("ship_type", "uint", 48, 14),
                            Fld("eni", "string", 0, 48),
                            Flt("length_m", "uint", 48, 13, 1, 0, 10),
                            Flt("beam_m", "uint", 61, 10, 1, 0, 10),
                            Fld("hazard", "uint", 88, 3),
                            Fld("draught_cm", "uint", 91, 11),
                            Fld("loaded", "uint", 102, 2),
                            Fld("speed_quality", "bool", 104, 1),
                            Fld("course_quality", "bool", 105, 1),
                            Fld("heading_quality", "bool", 106, 1) >>),
         LAMBDA result :
             Ok(("ship_type_text" :> (IF result.ship_type \in DOMAIN INLAND_SHIP_TYPES
                                      THEN INLAND_SHIP_TYPES[result.ship_type]
                                      ELSE [msg |-> "Unknown", of |-> result.ship_type]))
                @@ result))

decode_200_21(data) ==
    layout(data, 0, ("fid" :> 21) @@ ("description" :> "ETA at Lock/Bridge/Terminal"),
           << Fld("country", "string", 0, 12),
              Fld("location", "string", 12, 18),
              Fld("section", "string", 30, 30),
              Fld("terminal", "string", 60, 30),
              Fld("fairway_section", "string", 90, 30),
              Fld("fairway_hectometre", "string", 120, 30),
              Fld("eta_month", "uint", 150, 4),
              Fld("eta_day", "uint", 154, 5),
              Fld("eta_hour", "uint", 159, 5),
              Fld("eta_minute", "uint", 164, 6),
              Fld("convoy_count", "uint", 170, 3),
              Flt("convoy_length_m", "uint", 173, 13, 1, 0, 10),
              Flt("convoy_beam_m", "uint", 186, 10, 1, 0, 10),
              Fld("convoy_draught_cm", "uint", 196, 11),
              Fld("direction", "uint", 207, 1) >>)

decode_200_22(data) ==
    layout(data, 0, ("fid" :> 22) @@ ("description" :> "RTA at Lock/Bridge/Terminal"),
           << Fld("country", "string", 0, 12),
              Fld("location", "string", 12, 18),
              Fld("section", "string", 30, 30),
              Fld("terminal", "string", 60, 30),
              Fld("fairway_section", "string", 90, 30),
              Fld("fairway_hectometre", "string", 120, 30),
              Fld("rta_month", "uint", 150, 4),
              Fld("rta_day", "uint", 154, 5),
              Fld("rta_hour", "uint", 159, 5),
              Fld("rta_minute", "uint", 164, 6),
              Fld("rta_status", "uint", 170, 2) >>)

decode_200_23(data) ==
    layout(data, 0, ("fid" :> 23) @@ ("description" :> "EMMA Warning"),
           << Lin("start_year", "uint", 0, 8, 1, 2000),
              Fld("start_month", "uint", 8, 4),
              Fld("start_day", "uint", 12, 5),
              Lin("end_year", "uint", 17, 8, 1, 2000),
              Fld("end_month", "uint", 25, 4),
              Fld("end_day", "uint", 29, 5),
              Fld("start_hour", "uint", 34, 5),
              Fld("start_minute", "uint", 39, 6),
              Fld("end_hour", "uint", 45, 5),
              Fld("end_minute", "uint", 50, 6),
              Fld("fairway_section", "string", 56, 30),
              Fld("fairway_hectometre_from", "uint", 86, 10),
              Fld("fairway_hectometre_to", "uint", 96, 10),
              Fld("warning_type", "uint", 106, 3),
              Fld("warning_value", "int", 109, 14) >>)

decode_200_24(data) ==
    layout(data, 0, ("fid" :> 24) @@ ("description" :> "Water Levels"),
           << Fld("country", "string", 0, 12),
              Fld("gauge_id", "uint", 12, 11),
              Fld("level_cm", "int", 23, 14),
              Fld("day", "uint", 37, 5),
              Fld("hour", "uint", 42, 5),
              Fld("minute", "uint", 47, 6) >>)

decode_200_40(data) ==
    layout(data, 0, ("fid" :> 40) @@ ("description" :> "Signal Status"),
           << Flt("longitude", "int", 0, 25, 1, 0, 60000),
              Flt("latitude", "int", 25, 24, 1, 0, 60000),
              Fld("form", "uint", 49, 4),
              Fld("orientation", "uint", 53, 9),
              Fld("direction", "uint", 62, 3),
              Fld("status", "uint", 65, 30) >>)

decode_200_55(data) ==
    layout(data, 0, ("fid" :> 55) @@ ("description" :> "Number of Persons on Board (Inland)"),
           << Fld("crew", "uint", 0, 8),
              Fld("passengers", "uint", 8, 13),
              Fld("personnel", "uint", 21, 8) >>)

(***************************************************************************)
(* dac367: DAC 367 (US) layouts.                                           *)
(***************************************************************************)

REPORT_TYPES ==
    (0 :> "Location")
    @@ (1 :> "Wind")
    @@ (2 :> "Water Level")
    @@ (3 :> "Current 2D")
    @@ (4 :> "Current 3D")
    @@ (5 :> "Horizontal Current 2D")
    @@ (6 :> "Horizontal Current 3D")
    @@ (7 :> "Sea State")
    @@ (8 :> "Salinity")
    @@ (9 :> "Weather")
    @@ (10 :> "Air Gap")
    @@ (11 :> "Air Pressure")
    @@ (12 :> "Ice")

sub_area_fields ==
    (0 :> << Fld("scale_factor", "uint", 3, 2),
             Flt("longitude", "int", 5, 25, 1, 0, 60000),
             Flt("latitude", "int", 30, 24, 1, 0, 60000),
             Fld("precision", "uint", 54, 3),
             Fld("radius_m", "uint", 57, 12) >>)
    @@ (1 :> << Fld("scale_factor", "uint", 3, 2),
                Flt("longitude", "int", 5, 25, 1, 0, 60000),
                Flt("latitude", "int", 30, 24, 1, 0, 60000),
                Fld("precision", "uint", 54, 3),
                Fld("e_dim_m", "uint", 57, 8),
                Fld("n_dim_m", "uint", 65, 8),
                Fld("orientation", "uint", 73, 9) >>)
    @@ (2 :> << Fld("scale_factor", "uint", 3, 2),
                Flt("longitude", "int", 5, 25, 1, 0, 60000),
                Flt("latitude", "int", 30, 24, 1, 0, 60000),
                Fld("precision", "uint", 54, 3),
                Fld("radius_m", "uint", 57, 12),
                Fld("left_bound", "uint", 69, 9),
                Fld("right_bound", "uint", 78, 9) >>)
    @@ (3 :> << Fld("scale_factor", "uint", 3, 2),
                Fld("angle_1", "uint", 5, 10),
                Fld("dist_1", "uint", 15, 10),
                Fld("angle_2", "uint", 25, 10),
                Fld("dist_2", "uint", 35, 10),
                Fld("angle_3", "uint", 45, 10),
                Fld("dist_3", "uint", 55, 10),
                Fld("angle_4", "uint", 65, 10),
                Fld("dist_4", "uint", 75, 10) >>)
    @@ (4 :> << Fld("scale_factor", "uint", 3, 2),
                Fld("angle_1", "uint", 5, 10),
                Fld("dist_1", "uint", 15, 10),
                Fld("angle_2", "uint", 25, 10),
                Fld("dist_2", "uint", 35, 10),
                Fld("angle_3", "uint", 45, 10),
                Fld("dist_3", "uint", 55, 10),
                Fld("angle_4", "uint", 65, 10),
                Fld("dist_4", "uint", 75, 10) >>)
    @@ (5 :> << Fld("text", "string", 3, 84) >>)

\* the while loop of decode_367_22 from offset on
RECURSIVE sub_areas_367_22(_, _, _)
sub_areas_367_22(data, offset, sub_areas) ==
    IF offset + 90 > num_bits(data) THEN Ok(sub_areas)
    ELSE then(then(get_uint(data, offset, 3),
                   LAMBDA area_shape :
                       IF area_shape \in DOMAIN sub_area_fields
                       THEN layout(data, offset, ("shape" :> area_shape),
                                   sub_area_fields[area_shape])
                       ELSE then(hex_of_uint(data, offset + 3, 87),
                                 LAMBDA raw : Ok(("shape" :> area_shape) @@ ("raw" :> raw)))),
              LAMBDA sub_area :
                  sub_areas_367_22(data, offset + 90, Append(sub_areas, sub_area)))

decode_367_22(data) ==
    then(layout(data, 0, ("fid" :> 22) @@ ("description" :> "Area Notice (US)"),
                         << Fld("version", "uint", 0, 6),
                            Fld("link_id", "uint", 6, 10),
                            Fld("notice_type", "uint", 16, 7),
                            Fld("month", "uint", 23, 4),
                            Fld("day", "uint", 27, 5),
                            Fld("hour", "uint", 32, 5),
                            Fld("minute", "uint", 37, 6),
                            Fld("duration_min", "uint", 43, 18) >>),
         LAMBDA result :
             then(sub_areas_367_22(data, 61, <<>>),
                  LAMBDA sub_areas : Ok(("sub_areas" :> sub_areas) @@ result)))

report_fields ==
    (0 :> << Fld("version", "uint", 4, 6),
             Flt("longitude", "int", 10, 28, 1, 0, 600000),
             Flt("latitude", "int", 38, 27, 1, 0, 600000),
             Fld("precision", "uint", 65, 4),
             Flt("altitude_m", "int", 69, 12, 1, 0, 10),
             Fld("owner", "uint", 81, 4),
             Fld("timeout", "uint", 85, 3) >>)
    @@ (1 :> << Fld("day", "uint", 4, 5),
                Fld("hour", "uint", 9, 5),
                Fld("minute", "uint", 14, 6),
                Fld("site_id", "uint", 20, 7),
                Fld("wind_speed_kts", "uint", 27, 7),
                Fld("wind_gust_kts", "uint", 34, 7),
                Fld("wind_dir", "uint", 41, 9),
                Fld("wind_gust_dir", "uint", 50, 9),
                Fld("sensor_type", "uint", 59, 3),
                Fld("forecast_wind_speed_kts", "uint", 62, 7),
                Fld("forecast_wind_gust_kts", "uint", 69, 7),
                Fld("forecast_wind_dir", "uint", 76, 9),
                Fld("forecast_day", "uint", 85, 5),
                Fld("forecast_hour", "uint", 90, 5),
                Fld("forecast_minute", "uint", 95, 6),
                Fld("duration_min", "uint", 101, 8) >>)
    @@ (2 :> << Fld("day", "uint", 4, 5),
                Fld("hour", "uint", 9, 5),
                Fld("minute", "uint", 14, 6),
                Fld("site_id", "uint", 20, 7),
                Fld("level_type", "uint", 27, 3),
                Flt("level_m", "int", 30, 16, 1, 0, 100),
                Fld("trend", "uint", 46, 2),
                Fld("datum", "uint", 48, 5),
                Fld("sensor_type", "uint", 53, 3),
                Fld("forecast_type", "uint", 56, 3),
                Fld("forecast_day", "uint", 59, 5),
                Fld("forecast_hour", "uint", 64, 5),
                Fld("forecast_minute", "uint", 69, 6),
                Fld("duration_min", "uint", 75, 8) >>)
    @@ (3 :> << Fld("day", "uint", 4, 5),
                Fld("hour", "uint", 9, 5),
                Fld("minute", "uint", 14, 6),
                Fld("site_id", "uint", 20, 7),
                Flt("cur_speed_kts", "uint", 27, 8, 1, 0, 10),
                Fld("cur_dir", "uint", 35, 9),
                Fld("cur_depth_m", "uint", 44, 9) >>)
    @@ (7 :> << Fld("day", "uint", 4, 5),
                Fld("hour", "uint", 9, 5),
                Fld("minute", "uint", 14, 6),
                Fld("site_id", "uint", 20, 7),
                Flt("swell_height_m", "uint", 27, 8, 1, 0, 10),
                Fld("swell_period_s", "uint", 35, 6),
                Fld("swell_dir", "uint", 41, 9),
                Fld("sea_state_beaufort", "uint", 50, 4),
                Fld("swell_sensor_type", "uint", 54, 3),
                Flt("water_temp_c", "int", 57, 10, 1, 0, 10),
                Flt("water_temp_depth_m", "uint", 67, 7, 1, 0, 10),
                Fld("water_sensor_type", "uint", 74, 3),
                Flt("wave_height_m", "uint", 77, 8, 1, 0, 10),
                Fld("wave_period_s", "uint", 85, 6),
                Fld("wave_dir", "uint", 91, 9),
                Fld("wave_sensor_type", "uint", 100, 3),
                Flt("salinity_ppt", "uint", 103, 9, 1, 0, 10) >>)
    @@ (8 :> << Fld("day", "uint", 4, 5),
                Fld("hour", "uint", 9, 5),
                Fld("minute", "uint", 14, 6),
                Fld("site_id", "uint", 20, 7),
                Flt("water_temp_c", "int", 27, 10, 1, 0, 10),
                Flt("conductivity", "uint", 37, 10, 1, 0, 100),
                Flt("pressure_dbar", "uint", 47, 16, 1, 0, 10),
                Flt("salinity_ppt", "uint", 63, 9, 1, 0, 10),
                Fld("salinity_type", "uint", 72, 2),
                Fld("sensor_type", "uint", 74, 3) >>)
    @@ (9 :> << Fld("day", "uint", 4, 5),
                Fld("hour", "uint", 9, 5),
                Fld("minute", "uint", 14, 6),
                Fld("site_id", "uint", 20, 7),
                Flt("air_temp_c", "int", 27, 11, 1, 0, 10),
                Fld("air_temp_sensor", "uint", 38, 3),
                Fld("precip_type", "uint", 41, 3),
                Flt("visibility_nm", "uint", 44, 8, 1, 0, 10),
                Flt("dew_point_c", "int", 52, 10, 1, 0, 10),
                Fld("dew_sensor", "uint", 62, 3),
                Lin("air_pressure_hpa", "uint", 65, 9, 1, 800),
                Fld("pressure_trend", "uint", 74, 2),
                Fld("pressure_sensor", "uint", 76, 3),
                Flt("salinity_ppt", "uint", 79, 9, 1, 0, 10) >>)
    @@ (10 :> << Fld("day", "uint", 4, 5),
                 Fld("hour", "uint", 9, 5),
                 Fld("minute", "uint", 14, 6),
                 Fld("site_id", "uint", 20, 7),
                 Flt("air_draught_m", "uint", 27, 13, 1, 0, 10),
                 Flt("air_gap_m", "uint", 40, 13, 1, 0, 10),
                 Fld("air_gap_trend", "uint", 53, 2),
                 Flt("predicted_air_gap_m", "uint", 55, 13, 1, 0, 10),
                 Fld("forecast_day", "uint", 68, 5),
                 Fld("forecast_hour", "uint", 73, 5),
                 Fld("forecast_minute", "uint", 78, 6) >>)
    @@ (11 :> << Fld("day", "uint", 4, 5),
                 Fld("hour", "uint", 9, 5),
                 Fld("minute", "uint", 14, 6),
                 Fld("site_id", "uint", 20, 7),
                 Lin("air_pressure_hpa", "uint", 27, 9, 1, 800),
                 Fld("pressure_trend", "uint", 36, 2),
                 Fld("sensor_type", "uint", 38, 3),
                 Lin("forecast_pressure", "uint", 41, 9, 1, 800),
                 Fld("forecast_day", "uint", 50, 5),
                 Fld("forecast_hour", "uint", 55, 5),
                 Fld("forecast_minute", "uint", 60, 6),
                 Fld("duration_min", "uint", 66, 8) >>)

\* offset += n at the end of each branch
report_stride ==
    (0 :> 88) @@ (1 :> 109) @@ (2 :> 83) @@ (3 :> 53) @@ (7 :> 112) @@ (8 :> 77) @@ (9 :> 88) @@ (10 :> 84) @@ (11 :> 74)

\* the variant steps 27 bits over a report type without a layout and goes on
RECURSIVE reports_367_33_guessing(_, _, _)
reports_367_33_guessing(data, offset, reports) ==
    IF offset + 27 > num_bits(data) THEN Ok(reports)
    ELSE then(get_uint(data, offset, 4),
              LAMBDA report_type :
                  LET report == ("type" :> report_type)
                                @@ ("type_name" :> IF report_type \in DOMAIN REPORT_TYPES
                                                   THEN REPORT_TYPES[report_type]
                                                   ELSE [msg |-> "Unknown", of |-> report_type])
                  IN  IF report_type \in DOMAIN report_fields
                      THEN then(layout(data, offset, report, report_fields[report_type]),
                                LAMBDA decoded :
                                    reports_367_33_guessing(
                                        data, offset + report_stride[report_type],
                                        Append(reports, decoded)))
                      ELSE reports_367_33_guessing(
                               data, offset + 27,
                               Append(reports,
                                      report @@ ("raw_remaining" :>
                                          hex(SubSeq(data, offset \div 8 + 1, Len(data)))))))

\* the while loop of decode_367_33 from offset on
RECURSIVE reports_367_33(_, _, _)
reports_367_33(data, offset, reports) ==
    IF offset + 27 > num_bits(data) THEN Ok(reports)
    ELSE then(get_uint(data, offset, 4),
              LAMBDA report_type :
                  LET report == ("type" :> report_type)
                                @@ ("type_name" :> IF report_type \in DOMAIN REPORT_TYPES
                                                   THEN REPORT_TYPES[report_type]
                                                   ELSE [msg |-> "Unknown", of |-> report_type])
                  IN  IF report_type \in DOMAIN report_fields
                      THEN then(layout(data, offset, report, report_fields[report_type]),
                                LAMBDA decoded :
                                    reports_367_33(data, offset + report_stride[report_type],
                                                   Append(reports, decoded)))
                      ELSE Ok(Append(reports,
                                     report @@ ("raw_remaining" :>
                                         hex(SubSeq(data, offset \div 8 + 1, Len(data)))))))

decode_367_33(data) ==
    then(reports_367_33(data, 0, <<>>),
         LAMBDA reports :
             Ok(("fid" :> 33) @@ ("description" :> "Environmental Sensor Reports (US)")
                @@ ("reports" :> reports)))

(***************************************************************************)
(* The region dispatchers and decode_binary_payload.                       *)
(***************************************************************************)
\* str(e): the message of the exception
str(e) == [f \in DOMAIN e \ {"type"} |-> e[f]]

decode_dac001(fid, data) ==
    IF fid \notin {11, 13, 15, 16, 17, 19, 21, 22, 24, 27, 29, 31}
    THEN Ok(("error" :> [msg |-> "Unknown DAC 001 FID", fid |-> fid]) @@ ("raw" :> hex(data)))
    ELSE catch(CASE fid = 11 -> decode_001_11(data)
                 [] fid = 13 -> decode_001_13(data)
                 [] fid = 15 -> decode_001_15(data)
                 [] fid = 16 -> decode_001_16(data)
                 [] fid = 17 -> decode_001_17(data)
                 [] fid = 19 -> decode_001_19(data)
                 [] fid = 21 -> decode_001_21(data)
                 [] fid = 22 -> decode_001_22(data)
                 [] fid = 24 -> decode_001_24(data)
                 [] fid = 27 -> decode_001_27(data)
                 [] fid = 29 -> decode_001_29(data)
                 [] fid = 31 -> decode_001_31(data),
               LAMBDA e : Ok(("error" :> str(e)) @@ ("fid" :> fid) @@ ("raw" :> hex(data))))

decode_dac200(fid, data) ==
    IF fid \notin {10, 21, 22, 23, 24, 40, 55}
    THEN Ok(("error" :> [msg |-> "Unknown DAC 200 FID", fid |-> fid]) @@ ("raw" :> hex(data)))
    ELSE catch(CASE fid = 10 -> decode_200_10(data)
                 [] fid = 21 -> decode_200_21(data)
                 [] fid = 22 -> decode_200_22(data)
                 [] fid = 23 -> decode_200_23(data)
                 [] fid = 24 -> decode_200_24(data)
                 [] fid = 40 -> decode_200_40(data)
                 [] fid = 55 -> decode_200_55(data),
               LAMBDA e : Ok(("error" :> str(e)) @@ ("fid" :> fid) @@ ("raw" :> hex(data))))

decode_dac367(fid, data) ==
    IF fid \notin {22, 33}
    THEN Ok(("error" :> [msg |-> "Unknown DAC 367 FID", fid |-> fid]) @@ ("raw" :> hex(data)))
    ELSE catch(CASE fid = 22 -> decode_367_22(data)
                 [] fid = 33 -> decode_367_33(data),
               LAMBDA e : Ok(("error" :> str(e)) @@ ("fid" :> fid) @@ ("raw" :> hex(data))))

\* the payload argument: bytes, or a str
bytes(val) == [type |-> "bytes", val |-> val]
string(val) == [type |-> "str", val |-> val]

\* the variant takes a str as hex only
payload_bytes_hex_only(data, pad) ==
    IF data.type = "str" THEN fromhex(data.val) ELSE Ok(data.val)

\* the variant takes a str as an armored payload only
payload_bytes_armored_only(data, pad) ==
    IF data.type = "str" THEN Ok(bits_from_ais_payload(data.val, pad)) ELSE Ok(data.val)

\* a str is taken as hex and, when that fails, as an armored payload
payload_bytes(data, pad) ==
    IF data.type = "str"
    THEN LET parsed == fromhex(data.val) IN
         IF parsed.ok THEN parsed ELSE Ok(bits_from_ais_payload(data.val, pad))
    ELSE Ok(data.val)

\* the call returns a value, or the exception escapes it
Returned(r) == IF r.ok THEN [kind |-> "Return", value |-> r.val] ELSE Raised(r.exc)

decode_binary_payload(dac, fid, data, pad) ==
    LET result == ("dac" :> dac) @@ ("fid" :> fid) IN
    Returned(
        then(payload_bytes(data, pad),
             LAMBDA payload :
                 IF payload = <<>>
                 THEN Ok(("error" :> [msg |-> "Empty payload"]) @@ result)
                 ELSE then(catch(CASE dac = 1 -> decode_dac001(fid, payload)
                                   [] dac = 200 -> decode_dac200(fid, payload)
                                   [] dac \in {366, 367} -> decode_dac367(fid, payload)
                                   [] dac = 316 -> decode_dac367(fid, payload)
                                   [] dac \in {235, 250} ->
                                        Ok(("error" :> [msg |-> "DAC not fully implemented",
                                                        dac |-> dac])
                                           @@ ("raw" :> hex(payload)))
                                   [] OTHER ->
                                        Ok(("error" :> [msg |-> "Unknown DAC", dac |-> dac])
                                           @@ ("raw" :> hex(payload))),
                                 LAMBDA e :
                                     Ok(("error" :> [msg |-> "Decode error", of |-> str(e)])
                                        @@ ("raw" :> hex(payload)))),
                           LAMBDA decoded : Ok(decoded @@ result))))

(***************************************************************************)
(* The decoder driven call by call.                                        *)
(***************************************************************************)
Slack == 1  \* payloads are up to this many bytes shorter and longer than a layout

\* the number of bits a layout reads: the greatest offset + width of its reads, for
\* the layouts with a loop the header alone and the header with one item
Extents ==
    (<<1, 11>> :> {290}) @@ (<<1, 13>> :> {412}) @@ (<<1, 15>> :> {11})
    @@ (<<1, 16>> :> {13}) @@ (<<1, 17>> :> {120}) @@ (<<1, 19>> :> {202})
    @@ (<<1, 21>> :> {281, 301}) @@ (<<1, 22>> :> {55, 174}) @@ (<<1, 24>> :> {294})
    @@ (<<1, 27>> :> {56, 116}) @@ (<<1, 29>> :> {10}) @@ (<<1, 31>> :> {294})
    @@ (<<200, 10>> :> {107}) @@ (<<200, 21>> :> {208}) @@ (<<200, 22>> :> {172})
    @@ (<<200, 23>> :> {123}) @@ (<<200, 24>> :> {53}) @@ (<<200, 40>> :> {95})
    @@ (<<200, 55>> :> {29})
    @@ (<<367, 22>> :> {61, 151}) @@ (<<367, 33>> :> {27, 53})
    @@ (<<366, 22>> :> {61}) @@ (<<316, 33>> :> {53})

\* The calls made: every layout on payloads around each of its extents, with a mixed
\* pattern whose first bits are 0011 and, where the reads depend on the first bits,
\* with all ones; environmental reports of each type 0..15, cut short, whole, and
\* followed by more, and runs of two and three reports; pairs no decoder is
\* registered for; hex and armored strings.
Requests ==
    LET Lengths(pair) ==
            {1} \cup UNION {{n \in ((e + 7) \div 8 - Slack)..((e + 7) \div 8 + Slack) : n >= 1} :
                                e \in Extents[pair]}
        Pattern(n) == [i \in 1..n |-> (37 * i + 11) % 256]
        Ones(n) == [i \in 1..n |-> 255]
        ContentDependent == {<<1, 21>>, <<367, 22>>, <<367, 33>>}
        Request(dac, fid, data, pad) == [dac |-> dac, fid |-> fid, data |-> data, pad |-> pad]
        armored == text(<<"1", "7", "7", "K", "Q", "J", "5", "0", "0", "0", "G",
                          "?", "t", "O", "w", "K">>)
    IN  UNION {{Request(pair[1], pair[2], bytes(Pattern(n)), 0) : n \in Lengths(pair)} :
                    pair \in DOMAIN Extents}
        \cup UNION {{Request(pair[1], pair[2], bytes(Ones(n)), 0) : n \in Lengths(pair)} :
                    pair \in ContentDependent}
        \cup {Request(367, 33, bytes(<<16 * t + 5>> \o Pattern(n)), 0) :
                    t \in 0..15, n \in {3, 9, 14}}
        \cup {Request(367, 33, bytes(data), 0) :
                    data \in {<<48, 0, 0, 0, 0, 0, 2, 0, 0, 0, 48, 0>>,
                              <<48, 0, 0, 0, 0, 0, 1, 128, 0, 0, 0, 0, 0, 0>>,
                              <<48, 0, 0, 0, 0, 0, 1, 128, 0, 0, 0, 0, 0, 12, 0, 0, 0, 0, 0, 0>>}}
        \cup {Request(pair[1], pair[2], bytes(data), 0) :
                    pair \in {<<1, 99>>, <<200, 11>>, <<367, 1>>, <<366, 1>>, <<316, 16>>,
                              <<235, 10>>, <<250, 1>>, <<999, 1>>, <<0, 0>>},
                    data \in {<<171, 205>>, <<0>>}}
        \cup {Request(1, 15, bytes(<<87, 192>>), 0), Request(1, 15, bytes(<<43, 192>>), 0),
              Request(1, 16, bytes(<<4, 176>>), 0)}
        \cup {Request(pair[1], pair[2], bytes(<<>>), 0) :
                    pair \in {<<1, 16>>, <<200, 10>>, <<367, 33>>, <<999, 1>>}}
        \cup {Request(1, 16, string(text(cs)), 0) :
                    cs \in {<<"0", "4", "b", "0">>, <<"0", "4", " ", "B", "0">>,
                            <<"0", "4", "b">>, <<>>, <<" ">>, <<"0">>}}
        \cup {Request(pair[1], pair[2], string(armored), pad) :
                    pair \in {<<1, 16>>, <<1, 11>>, <<999, 1>>}, pad \in {0, 2, -8, 100}}

\* the layouts registered under each DAC
RegisteredFids ==
    (1 :> {11, 13, 15, 16, 17, 19, 21, 22, 24, 27, 29, 31})
    @@ (200 :> {10, 21, 22, 23, 24, 40, 55})
    @@ (366 :> {22, 33}) @@ (367 :> {22, 33}) @@ (316 :> {22, 33})

Registered(dac, fid) == dac \in DOMAIN RegisteredFids /\ fid \in RegisteredFids[dac]

\* the walk of decode_367_33 over the reports reaches one that does not fit
RECURSIVE ReportOverruns(_, _)
ReportOverruns(payload, offset) ==
    IF offset + 27 > num_bits(payload) THEN FALSE
    ELSE LET t == uint_bits(payload, offset, 4) IN
         IF t \notin DOMAIN report_stride THEN FALSE
         ELSE IF offset + report_stride[t] > num_bits(payload) THEN TRUE
         ELSE ReportOverruns(payload, offset + report_stride[t])

\* the payload ends before the end of some field the layout reads from it
TooShort(dac, fid, payload) ==
    LET region == IF dac \in {366, 316} THEN 367 ELSE dac
        first_bit == uint_bits(payload, 0, 1)
    IN  CASE <<region, fid>> = <<1, 17>> -> FALSE
          [] <<region, fid>> = <<1, 21>> ->
                num_bits(payload) < (IF first_bit = 0 THEN 301 ELSE 281)
          [] <<region, fid>> = <<367, 33>> -> ReportOverruns(payload, 0)
          [] OTHER ->
                num_bits(payload) < CHOOSE e \in Extents[<<region, fid>>] :
                                        \A o \in Extents[<<region, fid>>] : e <= o

\* the bytes decode_binary_payload decodes for this call
Payload(c) == payload_bytes(c.data, c.pad).val

\* the call c was of a registered layout on a payload too short for it, and came
\* back as the error result r
Contained(c, r) ==
    /\ c.op = "decode"
    /\ Registered(c.dac, c.fid)
    /\ Payload(c) # <<>>
    /\ TooShort(c.dac, c.fid, Payload(c))
    /\ r.kind = "Return"
    /\ "error" \in DOMAIN r.value

Decode ==
    \E req \in Requests :
        /\ call' = [op |-> "decode", dac |-> req.dac, fid |-> req.fid,
                    data |-> req.data, pad |-> req.pad]
        /\ ret' = decode_binary_payload(req.dac, req.fid, req.data, req.pad)
        /\ prior' = IF call.op = "decode"
                    THEN [kind |-> "Decoded", contained |-> Contained(call, ret)]
                    ELSE None
        /\ UNCHANGED <<buffer, timestamps, clock, lost, rows, alive>>

NextDecode == Decode

SpecDecode == Init /\ [][NextDecode]_vars

(***************************************************************************)
(* C9. decode_binary_payload lets no exception escape: for integer dac,    *)
(* fid and pad and a bytes or str payload it returns a result, and when    *)
(* the payload is not empty the result carries dac and fid equal to the    *)
(* arguments (the fid a region decoder merges in is the requested one)     *)
(* together with either decoded fields or an error field.                  *)
(***************************************************************************)
C9_NeverRaises ==
    call.op = "decode" =>
        /\ ret.kind = "Return"
        /\ call.data.val # <<>> =>
            /\ {"dac", "fid"} \subseteq DOMAIN ret.value
            /\ ret.value.dac = call.dac
            /\ ret.value.fid = call.fid
            /\ ("error" \in DOMAIN ret.value) # ("description" \in DOMAIN ret.value)

\* a str that is not hex was dearmored (with pad bits dropped) and the failure of a
\* registered layout on it came back as an error result carrying dac and fid
C9_Witness ==
    /\ call.op = "decode"
    /\ call.data.type = "str"
    /\ ~fromhex(call.data.val).ok
    /\ call.pad # 0
    /\ Registered(call.dac, call.fid)
    /\ ret.kind = "Return"
    /\ "error" \in DOMAIN ret.value
    /\ ret.value.error.msg = "Bit range exceeds data length"
    /\ ret.value.dac = call.dac
    /\ ret.value.fid = call.fid

(***************************************************************************)
(* C10. A failure inside a layout decode is contained to that message:     *)
(* for a registered (dac, fid) and a non-empty payload too short for some  *)
(* field the layout reads, the result is an error result with exactly the  *)
(* keys dac, fid, error and raw, the dac and fid of the call and raw the   *)
(* hex of the whole payload; and every decode call, whatever was decoded   *)
(* before it, returns what the decoder returns for its arguments alone.    *)
(***************************************************************************)
C10_LayoutFailureContained ==
    [][ call'.op = "decode" =>
          /\ ret' = decode_binary_payload(call'.dac, call'.fid, call'.data, call'.pad)
          /\ (/\ payload_bytes(call'.data, call'.pad).ok
              /\ Registered(call'.dac, call'.fid)
              /\ Payload(call') # <<>>
              /\ TooShort(call'.dac, call'.fid, Payload(call')))
             =>
             /\ ret'.kind = "Return"
             /\ DOMAIN ret'.value = {"dac", "fid", "error", "raw"}
             /\ ret'.value.dac = call'.dac
             /\ ret'.value.fid = call'.fid
             /\ ret'.value.raw = hex(Payload(call'))
      ]_vars

\* right after a layout failure that came back as an error result, a registered
\* layout decoded a payload long enough for it into its fields
C10_Witness ==
    /\ prior.kind = "Decoded"
    /\ prior.contained
    /\ call.op = "decode"
    /\ Registered(call.dac, call.fid)
    /\ ~TooShort(call.dac, call.fid, Payload(call))
    /\ ret.kind = "Return"
    /\ "error" \notin DOMAIN ret.value
    /\ "description" \in DOMAIN ret.value


(***************************************************************************)
(* C11. A (dac, fid) pair with no registered decoder produces the error    *)
(* variant: for a payload that is not empty, an unknown DAC, or an unknown *)
(* FID within DAC 1, 200, 366, 367 or 316, gives a result with exactly the *)
(* keys dac, fid, error and raw (no field of any layout), the dac and fid  *)
(* of the call, and raw the lowercase hex of the whole payload: two digits *)
(* 0-9a-f per byte, the high nibble first.                                 *)
(***************************************************************************)
C11_UnregisteredIsError ==
    (call.op = "decode" /\ ~Registered(call.dac, call.fid) /\ Payload(call) # <<>>) =>
        /\ ret.kind = "Return"
        /\ DOMAIN ret.value = {"dac", "fid", "error", "raw"}
        /\ ret.value.dac = call.dac
        /\ ret.value.fid = call.fid
        /\ Len(ret.value.raw) = 2 * Len(Payload(call))
        /\ \A i \in DOMAIN Payload(call) :
            LET high == ret.value.raw[2 * i - 1]
                low == ret.value.raw[2 * i]
            IN  /\ {high, low} \subseteq (48..57) \cup (97..102)
                /\ Payload(call)[i] = 16 * hex_value(high) + hex_value(low)

\* the call of the specification's example, dac 999 and fid 1 on the bytes AB CD, came
\* back as an error result with raw "abcd"
C11_Witness ==
    /\ call.op = "decode"
    /\ call.dac = 999
    /\ call.fid = 1
    /\ call.data = bytes(<<171, 205>>)
    /\ ret.kind = "Return"
    /\ "error" \in DOMAIN ret.value
    /\ ret.value.raw = text(<<"a", "b", "c", "d">>)

(***************************************************************************)
(* C12. An empty payload short-circuits the dispatch: for every dac and    *)
(* fid, registered or not, a payload of zero length after conversion (no   *)
(* bytes, the empty str, a str of whitespace alone, or an armored str     *)
(* whose pad drops every bit) gives exactly the result                     *)
(* {error: 'Empty payload', dac, fid}: nothing a region decoder returns    *)
(* (raw, description, a layout field) is in it.                            *)
(***************************************************************************)
C12_EmptyPayload ==
    LET chars == call.data.val
        blank == call.data.type = "str" /\ \A i \in DOMAIN chars : chars[i] \in Whitespace
        armored == /\ call.data.type = "str"
                   /\ \E i \in DOMAIN chars : ~IsHexDigit(chars[i]) /\ chars[i] \notin Whitespace
        converts_to_nothing == chars = <<>> \/ blank \/ (armored /\ call.pad >= 6 * Len(chars))
    IN  (call.op = "decode" /\ converts_to_nothing) =>
            ret = [kind |-> "Return",
                   value |-> ("error" :> [msg |-> "Empty payload"])
                             @@ ("dac" :> call.dac) @@ ("fid" :> call.fid)]

\* a str of one space, which bytes.fromhex reads as no bytes, came back as the empty
\* payload error for a registered pair
C12_Witness ==
    /\ call.op = "decode"
    /\ call.data = string(<<32>>)
    /\ Registered(call.dac, call.fid)
    /\ ret.kind = "Return"
    /\ DOMAIN ret.value = {"error", "dac", "fid"}
    /\ ret.value.error.msg = "Empty payload"


C20_Persons ==
    (call.op = "decode" /\ call.dac = 1 /\ call.fid = 16 /\ Len(Payload(call)) >= 2) =>
        /\ ret.kind = "Return"
        /\ DOMAIN ret.value = {"dac", "fid", "description", "persons"}
        /\ ret.value.persons = 32 * Payload(call)[1] + Payload(call)[2] \div 8
        /\ Payload(call) = <<4, 176>> => ret.value.persons = 150

\* the payload 04 B0 was decoded as DAC 1 FID 16 into 150 persons
C20_Witness ==
    /\ call.op = "decode"
    /\ call.dac = 1
    /\ call.fid = 16
    /\ call.data = bytes(<<4, 176>>)
    /\ ret.kind = "Return"
    /\ ret.value.persons = 150


(***************************************************************************)
(* The bit reader and the dearmorer called on their own: a call is drawn   *)
(* and the function applied to it.                                         *)
(***************************************************************************)
MaxWidth == 17   \* widths read by get_uint and get_int
MaxOffset == 26  \* bit offsets, up to past the end of the longest buffer
MaxChars == 3    \* characters of an armored payload

\* the calls made: get_uint and get_int at every offset and width on a few buffers of
\* up to three bytes; get_string on buffers spelling "AB  C@@", "@@@" and "?????";
\* bits_from_ais_payload on the strings of characters from both ends of the two
\* ranges of the armor alphabet, and on two with characters outside of it
BitCalls ==
    LET ByteBuffers == {<<>>, <<165>>, <<4, 176>>, <<87, 192>>, <<255, 255, 255>>,
                    <<0, 0, 0>>, <<128, 0, 1>>, <<18, 52, 86>>}
        SixBitBuffers == {<<4, 40, 32, 12, 0, 0>>, <<0, 0, 0>>, <<255, 255, 255, 255>>,
                    <<130, 8, 32, 4>>}
        ArmorChars == {48, 49, 87, 96, 119}
        Payloads == UNION {[1..n -> ArmorChars] : n \in 0..MaxChars}
                    \cup {<<119, 48, 119, 48>>, <<32, 120>>, <<88, 95, 120>>}
    IN  {[op |-> "get_uint", data |-> d, offset |-> o, width |-> w] :
            d \in ByteBuffers, o \in 0..MaxOffset, w \in 0..MaxWidth}
        \cup {[op |-> "get_int", data |-> d, offset |-> o, width |-> w] :
            d \in ByteBuffers, o \in 0..MaxOffset, w \in 1..MaxWidth}
        \cup {[op |-> "get_string", data |-> d, offset |-> o, width |-> w] :
            d \in SixBitBuffers, o \in {0, 1, 6, 12}, w \in (0..8) \cup {12, 13, 18, 24, 30, 36, 42, 48}}
        \cup UNION {{[op |-> "bits_from_ais_payload", payload |-> p, pad |-> pad] :
                        pad \in 0..(6 * Len(p))} : p \in Payloads}

InitBits ==
    /\ buffer = EmptyDict
    /\ timestamps = EmptyDict
    /\ clock = 0
    /\ call \in BitCalls
    /\ ret = None
    /\ lost = {}
    /\ rows = <<>>
    /\ alive = TRUE
    /\ prior = None

GetUint ==
    /\ call.op = "get_uint"
    /\ ret = None
    /\ ret' = get_uint(call.data, call.offset, call.width)
    /\ UNCHANGED <<buffer, timestamps, clock, call, lost, rows, alive, prior>>

GetInt ==
    /\ call.op = "get_int"
    /\ ret = None
    /\ ret' = get_int(call.data, call.offset, call.width)
    /\ UNCHANGED <<buffer, timestamps, clock, call, lost, rows, alive, prior>>

GetString ==
    /\ call.op = "get_string"
    /\ ret = None
    /\ ret' = get_string(call.data, call.offset, call.width)
    /\ UNCHANGED <<buffer, timestamps, clock, call, lost, rows, alive, prior>>

BitsFromAisPayload ==
    /\ call.op = "bits_from_ais_payload"
    /\ ret = None
    /\ ret' = Ok(bits_from_ais_payload(call.payload, call.pad))
    /\ UNCHANGED <<buffer, timestamps, clock, call, lost, rows, alive, prior>>

NextBits == GetUint \/ GetInt \/ GetString \/ BitsFromAisPayload

SpecBits == InitBits /\ [][NextBits]_vars


\* C13: get_uint reads most significant bit first across byte boundaries: for every
\* buffer, offset >= 0 and width >= 1 with offset + width within the buffer, the value
\* returned is below 2^width and its binary digit of weight 2^(width-1-i) is bit
\* offset+i of the buffer (bit 7 - k % 8 of byte k \div 8 for k = offset+i), so the
\* value written back at the same offset and width gives the original bits.
C13_UintMsbFirst ==
    (call.op = "get_uint" /\ ret # None /\ call.width >= 1
        /\ call.offset + call.width <= 8 * Len(call.data))
    => /\ ret.ok
       /\ ret.val >= 0
       /\ ret.val < 2 ^ call.width
       /\ \A i \in 0..(call.width - 1) :
              (ret.val \div (2 ^ (call.width - 1 - i))) % 2
                  = (call.data[((call.offset + i) \div 8) + 1]
                        \div (2 ^ (7 - ((call.offset + i) % 8)))) % 2

\* a read of 13 bits that starts inside the first byte and ends inside the third
C13_Witness ==
    /\ call.op = "get_uint"
    /\ call.data = <<18, 52, 86>>
    /\ call.offset = 5
    /\ call.width = 13
    /\ ret = Ok(2257)

\* C14: for width >= 1, get_uint fails with the range error exactly when offset + width
\* exceeds eight times the number of bytes and returns a value otherwise; for width 0
\* it returns 0 at every offset, the offsets past the end of the buffer included.
C14_UintBounds ==
    (call.op = "get_uint" /\ ret # None)
    => /\ call.width >= 1
          => /\ ~ret.ok <=> call.offset + call.width > 8 * Len(call.data)
             /\ ~ret.ok => ret.exc.type = "ValueError"
       /\ call.width = 0 => ret = Ok(0)

\* an empty read past the end of a two-byte buffer returns 0, and a one-bit read at
\* the same place is the error
C14_Witness ==
    /\ call.op = "get_uint"
    /\ call.data = <<4, 176>>
    /\ call.offset = 20
    /\ ret # None
    /\ \/ call.width = 0 /\ ret = Ok(0)
       \/ call.width = 1 /\ ~ret.ok

\* C15: get_int is the two's complement reading of get_uint: for every in-range offset
\* and width >= 1, with u the unsigned value of the field, get_int returns u - 2^width
\* when u >= 2^(width-1) and u otherwise; a field of ones gives -1, a field of zeros 0,
\* and the field with only its first bit set gives -2^(width-1).
C15_TwosComplement ==
    (call.op = "get_int" /\ ret # None
        /\ call.offset + call.width <= 8 * Len(call.data))
    => LET u == get_uint(call.data, call.offset, call.width).val
           width == call.width
       IN  /\ ret.ok
           /\ ret.val = IF u >= 2 ^ (width - 1) THEN u - 2 ^ width ELSE u
           /\ u = 2 ^ width - 1 => ret.val = -1
           /\ u = 0 => ret.val = 0
           /\ u = 2 ^ (width - 1) => ret.val = -(2 ^ (width - 1))

\* the sixteen-bit field with only the sign bit set
C15_Witness ==
    /\ call.op = "get_int"
    /\ call.data = <<128, 0, 1>>
    /\ call.offset = 0
    /\ call.width = 16
    /\ ret = Ok(-32768)


\* C16: get_string with a width that is a multiple of 6 decodes width/6 six-bit values
\* (0..31 to the character 64 + value, 32..63 to the character value) and returns
\* these characters in order without the '@' and spaces at the end: the result is a
\* prefix of the decoded characters, does not end in '@' or a space, and everything
\* left out is '@' or a space; with any other width the call fails with the error.
C16_StringDecoding ==
    (call.op = "get_string" /\ ret # None)
    => /\ call.width % 6 # 0 => ~ret.ok /\ ret.exc.type = "ValueError"
       /\ (call.width % 6 = 0 /\ call.offset + call.width <= 8 * Len(call.data))
          => LET count == call.width \div 6
                 value(k) == uint_bits(call.data, call.offset + 6 * (k - 1), 6)
                 char(k) == IF value(k) < 32 THEN 64 + value(k) ELSE value(k)
             IN  /\ ret.ok
                 /\ Len(ret.val) <= count
                 /\ \A k \in 1..Len(ret.val) : ret.val[k] = char(k)
                 /\ ret.val # <<>> => ret.val[Len(ret.val)] \notin {64, 32}
                 /\ \A k \in (Len(ret.val) + 1)..count : char(k) \in {64, 32}

\* the bits of "AB  C@@" are read as "AB  C"
C16_Witness ==
    /\ call.op = "get_string"
    /\ call.data = <<4, 40, 32, 12, 0, 0>>
    /\ call.offset = 0
    /\ call.width = 42
    /\ ret = Ok(<<65, 66, 32, 32, 67>>)


\* C17: bits_from_ais_payload is exact: for a payload of n characters and a pad from 0
\* to 6n, the result has ceil((6n - pad) / 8) bytes; bit j of the result, counted from
\* the most significant bit of the first byte, is for j < 6n - pad the bit of weight
\* 2^(5 - j % 6) in the low six bits of the value of character j \div 6 (its code less
\* 48, less 8 more when that exceeds 40), and is 0 from 6n - pad on.
C17_DearmorExact ==
    (call.op = "bits_from_ais_payload" /\ ret # None)
    => LET kept == 6 * Len(call.payload) - call.pad
           value(c) == (IF c - 48 > 40 THEN c - 56 ELSE c - 48) % 64
           source(j) == (value(call.payload[(j \div 6) + 1]) \div (2 ^ (5 - (j % 6)))) % 2
       IN  /\ ret.ok
           /\ Len(ret.val) = (kept + 7) \div 8
           /\ \A n \in 1..Len(ret.val) : ret.val[n] \in 0..255
           /\ \A j \in 0..(8 * Len(ret.val) - 1) :
                  (ret.val[(j \div 8) + 1] \div (2 ^ (7 - (j % 8)))) % 2
                      = IF j < kept THEN source(j) ELSE 0

\* "w0w" without its last 3 bits: 15 bits in two bytes, the last bit of the second 0
C17_Witness ==
    /\ call.op = "bits_from_ais_payload"
    /\ call.payload = <<119, 48, 119>>
    /\ call.pad = 3
    /\ ret = Ok(<<252, 14>>)

\* the armoring of the first count six-bit groups of a byte string: the values 0..39
\* are the characters '0'..'W', the values 40..63 the characters '`'..'w'
armor(data, count) ==
    [k \in 1..count |->
        IF uint_bits(data, 6 * (k - 1), 6) < 40
        THEN uint_bits(data, 6 * (k - 1), 6) + 48
        ELSE uint_bits(data, 6 * (k - 1), 6) + 56]

\* C18 as stated: for every payload over the armor alphabet, armoring all the six-bit
\* groups of the bytes that bits_from_ais_payload returns with pad 0 gives the payload.
C18_RoundTrip ==
    (call.op = "bits_from_ais_payload" /\ ret # None /\ call.pad = 0
        /\ \A k \in 1..Len(call.payload) : call.payload[k] \in (48..87) \cup (96..119))
    => armor(ret.val, (8 * Len(ret.val)) \div 6) = call.payload

\* C18: for every payload of n characters over the armor alphabet, armoring the first
\* n six-bit groups of the bytes that bits_from_ais_payload returns with pad 0 gives
\* the payload; armoring all the six-bit groups of the bytes gives the payload when
\* n % 4 is not 3, and the payload followed by one '0' when it is.
C18_RoundTripOfLength ==
    (call.op = "bits_from_ais_payload" /\ ret # None /\ call.pad = 0
        /\ \A k \in 1..Len(call.payload) : call.payload[k] \in (48..87) \cup (96..119))
    => /\ armor(ret.val, Len(call.payload)) = call.payload
       /\ armor(ret.val, (8 * Len(ret.val)) \div 6)
              = IF Len(call.payload) % 4 = 3 THEN Append(call.payload, 48)
                ELSE call.payload

\* "W`w" is three bytes, which armor to "W`w0"
C18_Witness ==
    /\ call.op = "bits_from_ais_payload"
    /\ call.payload = <<87, 96, 119>>
    /\ call.pad = 0
    /\ ret # None
    /\ Len(ret.val) = 3
    /\ armor(ret.val, 3) = <<87, 96, 119>>
    /\ armor(ret.val, 4) = <<87, 96, 119, 48>>


(***************************************************************************)
(* C22 as stated: after every add returns, each entry of the buffer holds  *)
(* at least 1 and at most total_parts - 1 fragments, each stored under a   *)
(* part number in 1..total_parts.                                          *)
(***************************************************************************)
C22_PartialEntries ==
    (call.op = "add" /\ ret.kind \in {"None", "Complete"}) =>
        \A k \in DOMAIN buffer :
            /\ Cardinality(DOMAIN buffer[k]) >= 1
            /\ Cardinality(DOMAIN buffer[k]) <= k[3] - 1
            /\ DOMAIN buffer[k] \subseteq 1..k[3]


(***************************************************************************)
(* C23. Fragments are correlated only by the full key (sequence id,        *)
(* channel, total parts).  An add under one key leaves the fragment set of *)
(* every other key as it was, or removes it whole when it has expired; it  *)
(* creates no entry under another key; a group it completes consists of    *)
(* the added fragment and fragments held under that very key, each of them *)
(* a sentence of that key.                                                 *)
(***************************************************************************)
C23_KeyIsolation ==
    [][ (call'.op = "add" /\ Buffers(call'.nmea)) =>
            LET k == Key(call'.nmea) IN
            /\ \A j \in (DOMAIN buffer') \ {k} :
                   j \in DOMAIN buffer /\ buffer'[j] = buffer[j]
            /\ \A j \in (DOMAIN buffer) \ {k} :
                   j \notin DOMAIN buffer' => clock - timestamps[j] > timeout
            /\ \A s \in Slots(buffer') : Key(buffer'[s[1]][s[2]].nmea) = s[1]
            /\ ret'.kind = "Complete" =>
                   \A i \in DOMAIN ret'.sentences :
                       /\ Key(ret'.sentences[i]) = k
                       /\ \/ /\ ret'.sentences[i] = call'.nmea
                             /\ ret'.raw_ids[i] = call'.raw_id
                          \/ /\ k \in DOMAIN buffer
                             /\ \E n \in DOMAIN buffer[k] :
                                    /\ buffer[k][n].nmea = ret'.sentences[i]
                                    /\ buffer[k][n].raw_id = ret'.raw_ids[i]
      ]_vars

\* a two-part group has just completed while a fragment with the same sequence id
\* and total on the other channel stays in the buffer
C23_Witness ==
    /\ call.op = "add"
    /\ ret.kind = "Complete"
    /\ Len(ret.sentences) = 2
    /\ Key(call.nmea) = <<"7", "A", 2>>
    /\ DOMAIN buffer = {<<"7", "B", 2>>}


(***************************************************************************)
(* C27. Collisions on a key are bounded by the timeout: a group of several *)
(* fragments that add returns as complete comes from an entry created at   *)
(* most timeout seconds before the completing add, and the fragments it    *)
(* combines with the added one were all held under that entry.             *)
(***************************************************************************)
C27_CompletionWithinTimeout ==
    [][ (call'.op = "add" /\ ret'.kind = "Complete" /\ Buffers(call'.nmea)) =>
            LET k == Key(call'.nmea) IN
            /\ k \in DOMAIN timestamps
            /\ call'.now - timestamps[k] <= timeout
            /\ \A i \in DOMAIN ret'.raw_ids :
                   \/ ret'.raw_ids[i] = call'.raw_id
                   \/ \E n \in DOMAIN buffer[k] : buffer[k][n].raw_id = ret'.raw_ids[i]
      ]_vars

\* a group has just completed exactly timeout seconds after its entry was created
C27_Witness ==
    /\ call.op = "add"
    /\ ret.kind = "Complete"
    /\ Buffers(call.nmea)
    /\ call.now = timeout
    /\ \E i \in DOMAIN ret.raw_ids : ret.raw_ids[i] # call.raw_id


(***************************************************************************)
(* C28. Duplicate fragments do not count toward completion.  Under a key   *)
(* whose held part numbers are all in 1..N, adding a part number p in 1..N *)
(* that is already held replaces the stored fragment by the added one,     *)
(* leaves the set of held part numbers and every other fragment as they    *)
(* were and returns None; add returns the group exactly when the held part *)
(* numbers and p together are 1..N, and then emits for every part the      *)
(* fragment stored last under its number.                                  *)
(***************************************************************************)
C28_DuplicatesReplace ==
    \A nmea \in Sentences :
        (Buffers(nmea) /\ Part(nmea) \in 1..Total(nmea)
            /\ HeldNow(Key(nmea)) \subseteq 1..Total(nmea))
        =>
        LET k == Key(nmea)
            N == Total(nmea)
            p == Part(nmea)
            out == AddNow(nmea)
        IN  /\ out.ret.kind = "Complete" <=> HeldNow(k) \cup {p} = 1..N
            /\ out.ret.kind = "Complete" =>
                   \A i \in 1..N :
                       /\ out.ret.raw_ids[i] =
                              IF i = p THEN FreshId(buffer) ELSE buffer[k][i].raw_id
                       /\ out.ret.sentences[i] =
                              IF i = p THEN nmea ELSE buffer[k][i].nmea
            /\ p \in HeldNow(k) =>
                   /\ out.ret = None
                   /\ DOMAIN out.buffer[k] = HeldNow(k)
                   /\ out.buffer[k][p].nmea = nmea
                   /\ out.buffer[k][p].raw_id = FreshId(buffer)
                   /\ \A n \in HeldNow(k) \ {p} : out.buffer[k][n] = buffer[k][n]
                   /\ buffer[k][p].raw_id \notin IdsIn(out.buffer)

\* part 1 of the three-part group was just added a second time while part 2 was
\* held: the entry is as old as before, holds the same two part numbers, and the
\* fragment that was stored under part 1 is gone
C28_Witness ==
    /\ call.op = "add"
    /\ ret = None
    /\ Buffers(call.nmea)
    /\ Key(call.nmea) = <<"7", "A", 3>>
    /\ Part(call.nmea) = 1
    /\ DOMAIN buffer[Key(call.nmea)] = {1, 2}
    /\ buffer[Key(call.nmea)][1].raw_id = call.raw_id
    /\ timestamps[Key(call.nmea)] < call.now
    /\ \E f \in lost : f.key = Key(call.nmea) /\ f.part = 1 /\ f.raw_id # call.raw_id


(***************************************************************************)
(* C21. The form of a str payload is detected: for a string that parses as *)
(* hex the result is that of the same call on bytes.fromhex of the string, *)
(* whatever the dearmorer would make of it; for a string that does not     *)
(* parse as hex it is that of the same call on the bytes the dearmorer     *)
(* makes of the string and pad.                                            *)
(***************************************************************************)
C21_AutoDetect ==
    (call.op = "decode" /\ call.data.type = "str") =>
        ret = decode_binary_payload(
                  call.dac, call.fid,
                  bytes(IF fromhex(call.data.val).ok THEN fromhex(call.data.val).val
                        ELSE bits_from_ais_payload(call.data.val, call.pad)),
                  call.pad)

\* "04b0" is hex for the two bytes 04 B0 and was decoded as 150 persons, although
\* its four characters are armor for three other bytes
C21_Witness ==
    /\ call.op = "decode"
    /\ call.data = string(text(<<"0", "4", "b", "0">>))
    /\ call.dac = 1
    /\ call.fid = 16
    /\ ret.kind = "Return"
    /\ ret.value.persons = 150
    /\ bits_from_ais_payload(call.data.val, call.pad) # <<4, 176>>
    /\ ret # decode_binary_payload(1, 16, bytes(bits_from_ais_payload(call.data.val, 0)), 0)


(***************************************************************************)
(* C25. decode_367_33 terminates on every payload.  It comes back with an  *)
(* error result when a report overruns the payload, and otherwise with a   *)
(* list of reports in which every report of a type with a layout starts    *)
(* where the strides of the reports before it end and lies within the      *)
(* payload with its whole stride of at least 53 bits, and a report of a    *)
(* type without a layout (4, 5, 6, 12..15) is the last one and carries the *)
(* bytes from its own first byte to the end of the payload in hex.         *)
(***************************************************************************)
C25_ReportWalkEnds ==
    (call.op = "decode" /\ call.fid = 33 /\ call.dac \in {316, 366, 367}
        /\ Payload(call) # <<>>)
    => /\ ret.kind = "Return"
       /\ \A t \in DOMAIN report_stride : report_stride[t] >= 53
       /\ (0..15) \ DOMAIN report_stride = {4, 5, 6, 12, 13, 14, 15}
       /\ IF "error" \in DOMAIN ret.value THEN ReportOverruns(Payload(call), 0)
          ELSE LET reports == ret.value.reports
                   known(i) == reports[i].type \in DOMAIN report_stride
                   start[i \in 1..Len(reports)] ==
                       IF i = 1 THEN 0
                       ELSE start[i - 1] + IF known(i - 1)
                                           THEN report_stride[reports[i - 1].type] ELSE 0
               IN  /\ Len(reports) <= num_bits(Payload(call)) \div 53 + 1
                   /\ \A i \in 1..Len(reports) :
                          /\ reports[i].type = uint_bits(Payload(call), start[i], 4)
                          /\ IF known(i)
                             THEN /\ start[i] + report_stride[reports[i].type]
                                         <= num_bits(Payload(call))
                                  /\ "raw_remaining" \notin DOMAIN reports[i]
                             ELSE /\ i = Len(reports)
                                  /\ reports[i].raw_remaining =
                                         hex(SubSeq(Payload(call), start[i] \div 8 + 1,
                                                    Len(Payload(call))))

\* a current report followed by a report of type 4 and by twelve more bits that begin
\* like a current report: two reports, the second with the last six bytes raw
C25_Witness ==
    /\ call.op = "decode"
    /\ call.dac = 367
    /\ call.fid = 33
    /\ call.data = bytes(<<48, 0, 0, 0, 0, 0, 2, 0, 0, 0, 48, 0>>)
    /\ ret.kind = "Return"
    /\ Len(ret.value.reports) = 2
    /\ ret.value.reports[1].type = 3
    /\ ret.value.reports[2].type = 4
    /\ ret.value.reports[2].raw_remaining = hex(<<2, 0, 0, 0, 48, 0>>)


(***************************************************************************)
(* C30 as stated: in the DAC 200 FID 10 layout every named field is        *)
(* decoded from its own bit range, so no bit of the payload is read by two *)
(* fields: inverting any one bit of a payload that decodes changes at most *)
(* one of the fields of the result (ship_type_text, which is looked up     *)
(* from ship_type, aside).                                                 *)
(***************************************************************************)
C30_OwnBitRanges ==
    (call.op = "decode" /\ call.dac = 200 /\ call.fid = 10
        /\ ret.kind = "Return" /\ "error" \notin DOMAIN ret.value)
    => LET payload == Payload(call)
           weight(j) == 2 ^ (7 - (j % 8))
           inverted(j) ==
               [n \in 1..Len(payload) |->
                   IF n # (j \div 8) + 1 THEN payload[n]
                   ELSE IF (payload[n] \div weight(j)) % 2 = 1 THEN payload[n] - weight(j)
                   ELSE payload[n] + weight(j)]
           fields == (DOMAIN ret.value) \ {"ship_type_text"}
       IN  \A j \in 0..(num_bits(payload) - 1) :
               Cardinality({f \in fields :
                               decode_binary_payload(200, 10, bytes(inverted(j)), 0).value[f]
                                   # ret.value[f]}) <= 1


(***************************************************************************)
(* The decoder process started with --once: run_once on a new AISDecoder   *)
(* over the rows stored so far, after which the process exits.             *)
(***************************************************************************)
\* run_once: batches until one of them returns 0; total is the sum so far
RECURSIVE run_once(_, _, _, _, _)
run_once(buf, tss, rws, now, total) ==
    then(Ok(process_batch(buf, tss, rws, now)),
         LAMBDA st :
             IF st.raised # None \/ st.processed = 0 THEN [st EXCEPT !.processed = total]
             ELSE run_once(st.buffer, st.timestamps, st.rows, now, total + st.processed))

RunOnce ==
    /\ alive
    /\ LET st == run_once(buffer, timestamps, rows, clock, 0)
       IN  /\ buffer' = st.buffer
           /\ timestamps' = st.timestamps
           /\ rows' = st.rows
           /\ ret' = IF st.raised # None THEN st.raised
                     ELSE [kind |-> "RunOnce", total |-> st.processed]
    /\ alive' = FALSE
    /\ call' = [op |-> "run_once", now |-> clock]
    /\ lost' = {}
    /\ UNCHANGED <<clock, prior>>

NextRunOnce == Store \/ RunOnce

SpecRunOnce == Init /\ [][NextRunOnce]_vars

(***************************************************************************)
(* C26 as stated: run_once processes all pending messages: when it         *)
(* returns, no row that was pending (decoded = 0) when it was called is    *)
(* still pending.                                                          *)
(***************************************************************************)
C26_RunOnceDrains ==
    [][ (call'.op = "run_once" /\ ret'.kind = "RunOnce") =>
            \A i \in DOMAIN rows : rows[i].decoded = 0 => rows'[i].decoded # 0
      ]_vars


(***************************************************************************)
(* The decoder process running continuously: a batch is taken again and    *)
(* again for as long as the process is alive.                              *)
(***************************************************************************)
SpecBatchLive == SpecBatch /\ WF_vars(ProcessBatch)

(***************************************************************************)
(* C29 as stated: every row that process_batch has marked decoded = 2      *)
(* eventually reaches a terminal status, decoded = 1 or decoded = -1,      *)
(* while batches keep running.                                             *)
(***************************************************************************)
C29_EventuallyTerminal ==
    \A i \in 1..MaxRows :
        [](  (i \in DOMAIN rows /\ rows[i].decoded = 2)
             => <>(i \in DOMAIN rows /\ rows[i].decoded \in {1, -1}))

(***************************************************************************)
(* Two callers in add on one MultiPartBuffer, statement by statement.      *)
(* A frame is one call in flight: its arguments, its position in add and   *)
(* its local variables.                                                    *)
(***************************************************************************)
Threads == {1, 2}

MaxForks == 2  \* the two callers enter add together at most this many times

\* the sentences the two callers hand to add
ThreadSentences ==
    { Sentence("2", "1", "7", "A"), Sentence(" 2", "02", "7", "A"),
      Sentence("2", "3", "7", "A"),
      Sentence("1", "1", "", "A"),
      <<"!AIVDM", "2", "1", "7", "A", "payload">> }

Running == [kind |-> "Running"]

Frame(nmea, raw_id) ==
    [nmea |-> nmea, raw_id |-> raw_id, timestamp |-> RowTimestamp(raw_id),
     pc |-> "parse", p |-> None, key |-> None, now |-> 0, expired |-> {},
     result |-> None]

\* the call has returned r (or r has escaped it)
Return(buf, tss, f, r) ==
    [buffer |-> buf, timestamps |-> tss, frame |-> [f EXCEPT !.pc = "done"], ret |-> r]

\* the call goes on at the statement pc
Goto(buf, tss, f, pc) ==
    [buffer |-> buf, timestamps |-> tss, frame |-> [f EXCEPT !.pc = pc], ret |-> Running]

\* (the variant creates the entry without looking whether the key is there)
statement_always_creates(buf, tss, f, now) ==
    Goto(buf, tss, f, "create_buffer")

\* if key not in self.buffer:
statement_check(buf, tss, f, now) ==
    Goto(buf, tss, f, IF f.key \notin DOMAIN buf THEN "create_buffer" ELSE "insert")

\* the statement of add (or of _cleanup, called from it) at which the frame f stands,
\* executed at time now on the maps buf and tss
statement(buf, tss, f, now) ==
    CASE f.pc = "parse" ->
            LET p == parse(f.nmea) IN
            IF ~p.ok THEN Return(buf, tss, f, None)
            ELSE IF p.total = 1
            THEN Return(buf, tss, f, Completed(<<f.nmea>>, <<f.raw_id>>, f.timestamp))
            ELSE Goto(buf, tss,
                      [f EXCEPT !.p = p, !.key = <<p.seq_id, p.channel, p.total>>,
                                !.now = now],
                      "cleanup")
      [] f.pc = "cleanup" ->
            LET expired == {k \in DOMAIN tss : f.now - tss[k] > timeout}
            IN  Goto(buf, tss, [f EXCEPT !.expired = expired],
                     IF expired = {} THEN "check" ELSE "evict_buffer")
      [] f.pc = "evict_buffer" ->
            LET k == CHOOSE k \in f.expired : TRUE IN
            IF k \notin DOMAIN buf THEN Return(buf, tss, f, Raised("KeyError"))
            ELSE Goto(Del(buf, k), tss, f, "evict_timestamp")
      [] f.pc = "evict_timestamp" ->
            LET k == CHOOSE k \in f.expired : TRUE IN
            IF k \notin DOMAIN tss THEN Return(buf, tss, f, Raised("KeyError"))
            ELSE Goto(buf, Del(tss, k), [f EXCEPT !.expired = f.expired \ {k}],
                      IF f.expired = {k} THEN "check" ELSE "evict_buffer")
      [] f.pc = "check" -> statement_check(buf, tss, f, now)
      [] f.pc = "create_buffer" ->
            Goto(Put(buf, f.key, EmptyDict), tss, f, "create_timestamp")
      [] f.pc = "create_timestamp" ->
            Goto(buf, Put(tss, f.key, f.now), f, "insert")
      [] f.pc = "insert" ->
            IF f.key \notin DOMAIN buf THEN Return(buf, tss, f, Raised("KeyError"))
            ELSE Goto(Put(buf, f.key,
                          Put(buf[f.key], f.p.seq_num,
                              [nmea |-> f.nmea, raw_id |-> f.raw_id,
                               timestamp |-> f.timestamp])),
                      tss, f, "length")
      [] f.pc = "length" ->
            IF f.key \notin DOMAIN buf THEN Return(buf, tss, f, Raised("KeyError"))
            ELSE IF Cardinality(DOMAIN buf[f.key]) = f.p.total
            THEN Goto(buf, tss, f, "collect")
            ELSE Return(buf, tss, f, None)
      [] f.pc = "collect" ->
            IF f.key \notin DOMAIN buf THEN Return(buf, tss, f, Raised("KeyError"))
            ELSE LET r == assemble(buf[f.key], f.p.total, f.timestamp) IN
                 IF r.kind = "Raise" THEN Return(buf, tss, f, r)
                 ELSE Goto(buf, tss, [f EXCEPT !.result = r], "del_buffer")
      [] f.pc = "del_buffer" ->
            IF f.key \notin DOMAIN buf THEN Return(buf, tss, f, Raised("KeyError"))
            ELSE Goto(Del(buf, f.key), tss, f, "del_timestamp")
      [] f.pc = "del_timestamp" ->
            IF f.key \notin DOMAIN tss THEN Return(buf, tss, f, Raised("KeyError"))
            ELSE Return(buf, Del(tss, f.key), f, f.result)

\* no call is in flight
Idle == \A t \in Threads : call.frames[t].pc = "done"

\* a fresh buffer shared by two callers that have made no call yet; locked says
\* whether every add on this buffer runs under the one lock of the buffer
InitThreads ==
    \E locked \in BOOLEAN :
        /\ buffer = EmptyDict
        /\ timestamps = EmptyDict
        /\ clock = 0
        /\ call = [op |-> "threads", locked |-> locked, holder |-> 0, forks |-> 0,
                   frames |-> [t \in Threads |->
                                  [Frame(<<>>, 0) EXCEPT !.pc = "done"]]]
        /\ ret = [t \in Threads |-> None]
        /\ lost = {}
        /\ rows = <<>>
        /\ alive = TRUE
        /\ prior = [buffer |-> EmptyDict, timestamps |-> EmptyDict, now |-> 0]

\* the two smallest row ids not held in the buffer
ThreadIds(buf) ==
    LET free == (1..(FragmentCount(buf) + 2)) \ BufferedIds(buf)
        first == CHOOSE i \in free : \A j \in free : i <= j
        second == CHOOSE i \in free \ {first} : \A j \in free \ {first} : i <= j
    IN  (1 :> first) @@ (2 :> second)

\* both callers enter add at the same reading of the clock
Fork ==
    \E nmea1 \in ThreadSentences, nmea2 \in ThreadSentences :
        /\ Idle
        /\ call.forks < MaxForks
        /\ call' = [call EXCEPT
                      !.forks = call.forks + 1,
                      !.frames = [t \in Threads |->
                                     Frame(IF t = 1 THEN nmea1 ELSE nmea2,
                                           ThreadIds(buffer)[t])]]
        /\ ret' = [t \in Threads |-> Running]
        /\ prior' = [buffer |-> buffer, timestamps |-> timestamps, now |-> clock]
        /\ lost' = {}
        /\ UNCHANGED <<buffer, timestamps, clock, rows, alive>>

\* the caller t may run: the lock is not in use, or is free, or is held by t
may_run(c, t) == ~c.locked \/ c.holder \in {0, t}

\* one caller executes one statement
Step ==
    \E t \in Threads :
        /\ call.frames[t].pc # "done"
        /\ may_run(call, t)
        /\ LET out == statement(buffer, timestamps, call.frames[t], clock)
           IN  /\ buffer' = out.buffer
               /\ timestamps' = out.timestamps
               /\ call' = [call EXCEPT !.frames[t] = out.frame,
                                       !.holder = IF out.frame.pc = "done" THEN 0 ELSE t]
               /\ ret' = [ret EXCEPT ![t] = out.ret]
        /\ UNCHANGED <<clock, lost, rows, alive, prior>>

\* time passes while no call is in flight
Pause ==
    \E d \in TickSteps :
        /\ Idle
        /\ clock + d <= MaxClock
        /\ clock' = clock + d
        /\ UNCHANGED <<buffer, timestamps, call, ret, lost, rows, alive, prior>>

NextThreads == Fork \/ Step \/ Pause

SpecThreads == InitThreads /\ [][NextThreads]_vars

\* what the two calls have left behind: the maps and what each call returned
ThreadOutcome == [buffer |-> buffer, timestamps |-> timestamps, rets |-> ret]

\* the same two calls made one after the other, the caller first before the other
SerialOutcome(first) ==
    LET other == CHOOSE t \in Threads : t # first
        f1 == call.frames[first]
        f2 == call.frames[other]
        o1 == add(prior.buffer, prior.timestamps, f1.nmea, f1.raw_id, f1.timestamp, prior.now)
        o2 == add(o1.buffer, o1.timestamps, f2.nmea, f2.raw_id, f2.timestamp, prior.now)
    IN  [buffer |-> o2.buffer, timestamps |-> o2.timestamps,
         rets |-> (first :> o1.ret) @@ (other :> o2.ret)]

SerialOutcomes == {SerialOutcome(first) : first \in Threads}

AllReturned == call.forks > 0 /\ Idle

(***************************************************************************)
(* C24. Two callers in add on the same buffer: when both calls have        *)
(* returned and what they left behind (the two maps and the two results)   *)
(* is what neither serial order of the two calls produces, the calls did   *)
(* not run under the lock.  Under one lock every outcome is that of a      *)
(* serial order; without it such an outcome is reached.                    *)
(***************************************************************************)
C24_LockedIsSerial ==
    (AllReturned /\ ThreadOutcome \notin SerialOutcomes) => ~call.locked

\* without the lock: one call returns the completed group and the other fails with
\* KeyError on an entry the first has already removed
C24_Witness ==
    /\ AllReturned
    /\ ~call.locked
    /\ ThreadOutcome \notin SerialOutcomes
    /\ \E t \in Threads, u \in Threads :
          /\ ret[t].kind = "Complete"
          /\ ret[u] = Raised("KeyError")

====
